---- MODULE Spec2Model ----
(***************************************************************************)
(* A model of the client of the Services app: the Discussions screen       *)
(* (fetchPosts and its client-side join, checkUserLikes, handleLikePost),  *)
(* and the media upload helper uploadMultipleFiles.                        *)
(*                                                                         *)
(* The hosted backend is modelled by its tables (posts, profiles, likes)   *)
(* with the constraints and row-level policies of supabase/migrations.     *)
(* A remote call is one step: the server processes the request and the     *)
(* awaiting handler continues with the response.  A remote call ends in    *)
(* one of three ways: it resolves without error, it resolves with an       *)
(* error field set (a constraint or policy rejection, or a failed request  *)
(* reported by the client library), or the awaited promise rejects.        *)
(***************************************************************************)
EXTENDS Integers, Sequences, FiniteSets, TLC

VARIABLES
    session,        \* SessionContext: TRUE when session?.user is set
    variant,        \* which DiscussionsScreen source is running
    srvPosts,       \* server table posts, in created_at descending order
    srvProfiles,    \* server table profiles (a set of rows, ids unique)
    srvLikes,       \* post ids with a likes row (post_id, session user)
    posts,          \* useState posts
    filteredPosts,  \* useState filteredPosts ("search" variant only)
    loading,        \* useState loading
    refreshing,     \* useState refreshing
    fetch,          \* the fetchPosts invocation in flight, if any
    fetchErr,       \* what the last finished fetchPosts logged
    chkPending,     \* a checkUserLikes query is in flight
    chkQuery,       \* parity of the number of likes queries checkUserLikes has sent
    calls,          \* handleLikePost invocations in flight, in order of the taps
    nCalls,         \* number of handleLikePost invocations so far
    lastDone,       \* how the handleLikePost invocation that finished last ended
    loginAlert,     \* the "You need to be logged in" alert was shown
    e2e,            \* observer of the like-then-refetch scenario
    files,          \* uploadMultipleFiles: the files argument
    hasProgress,    \* uploadMultipleFiles: onProgress was provided
    upPc,           \* uploadMultipleFiles: "idle", "loop" or "returned"
    upIdx,          \* uploadMultipleFiles: index of the file being uploaded
    urls,           \* uploadMultipleFiles: urls
    completedUploads, \* uploadMultipleFiles: completedUploads
    progressLog,    \* the values passed to onProgress, in order
    upOutcome,      \* outcome of each upload attempted so far, in order
    upStarted,      \* indices of the files whose upload was started, in order
    upInFlight,     \* indices of the files whose upload is in flight
    progressFor,    \* index of the file after which each onProgress call was made
    content,        \* NewPostScreen (storage variant): useState content
    selectedMedia,  \* NewPostScreen: useState selectedMedia
    isLoading,      \* NewPostScreen: useState isLoading
    uploadProgress, \* NewPostScreen: useState uploadProgress
    npPc,           \* NewPostScreen.handleSubmit: where the invocation stands
    npIdx,          \* handleSubmit: index of the media of the current iteration
    retryCount,     \* handleSubmit: retryCount
    mediaUrls,      \* handleSubmit: mediaUrls
    uploadedCount,  \* handleSubmit: uploadedCount
    npAlert,        \* title of the alert handleSubmit has shown, or "none"
    npRows,       \* rows handleSubmit has inserted into posts
    npFiles,        \* per media: attempts made and whether one succeeded
    npPauses,       \* number of one-second pauses taken
    npRemote,       \* number of remote calls handleSubmit has issued
    vFile,          \* validateMediaFile: argument file
    vType,          \* validateMediaFile: argument type ('image' or 'video')
    vMediaType,     \* validateMediaFile: argument mediaType
    vResult,        \* validateMediaFile: the returned object
    mediaFiles,     \* MediaPicker: prop mediaFiles (state of the parent screen)
    pkMediaType,    \* MediaPicker: prop mediaType
    picks,          \* pickImage / pickVideo invocations awaiting the library
    nPicks,         \* number of pickImage / pickVideo invocations that opened the library
    pkAlert,        \* title of the last alert MediaPicker has shown, or "none"
    pd,             \* PostDetailsScreen of each client: its state and handlers in flight
    pdSrv,          \* the server's row of the post, its likes rows and its comments rows
    pdHist,         \* the remote calls that failed, the comments submitted, the likes tapped
    fm,             \* AddServiceScreen and NewPostScreen (Cloudinary): form, handleSubmit
    ps,             \* PostsScreen: session, tables, fetchPosts in flight, posts
    ad,             \* adUtils: interstitialAd, the ad instances, the show calls, the timers
    sv,             \* ServicesScreen: category, services, the fetches in flight
    app             \* App and AuthProvider: session, user, the auth calls in flight

discVars == <<session, variant, srvPosts, srvProfiles, srvLikes, posts,
              filteredPosts, loading, refreshing, fetch, fetchErr,
              chkPending, chkQuery, calls, nCalls, lastDone, loginAlert, e2e>>
upVars == <<files, hasProgress, upPc, upIdx, urls, completedUploads,
            progressLog, upOutcome, upStarted, upInFlight, progressFor>>
npVars == <<content, selectedMedia, isLoading, uploadProgress, npPc, npIdx, retryCount,
            mediaUrls, uploadedCount, npAlert, npRows, npFiles, npPauses, npRemote>>
valVars == <<vFile, vType, vMediaType, vResult>>
pkVars == <<mediaFiles, pkMediaType, picks, nPicks, pkAlert>>
pdVars == <<pd, pdSrv, pdHist>>
fmVars == <<fm>>
psVars == <<ps>>
restVars == <<ad, sv, app>>
vars == <<discVars, upVars, npVars, valVars, pkVars, pdVars, fmVars, psVars, restVars>>

\* what is outside the Discussions screen, outside uploadMultipleFiles, and
\* outside NewPostScreen
offDisc == <<upVars, npVars, valVars, pkVars, pdVars, fmVars, psVars, restVars>>
offUp == <<discVars, npVars, valVars, pkVars, pdVars, fmVars, psVars, restVars>>
offNp == <<discVars, upVars, valVars, pkVars, pdVars, fmVars, psVars, restVars>>
offVal == <<discVars, upVars, npVars, pkVars, pdVars, fmVars, psVars, restVars>>
offPk == <<discVars, upVars, npVars, valVars, pdVars, fmVars, psVars, restVars>>
offPd == <<discVars, upVars, npVars, valVars, pkVars, fmVars, psVars, restVars>>
offFm == <<discVars, upVars, npVars, valVars, pkVars, pdVars, psVars, restVars>>
offPs == <<discVars, upVars, npVars, valVars, pkVars, pdVars, fmVars, restVars>>
offAd == <<discVars, upVars, npVars, valVars, pkVars, pdVars, fmVars, psVars, sv, app>>
offSv == <<discVars, upVars, npVars, valVars, pkVars, pdVars, fmVars, psVars, ad, app>>
offApp == <<discVars, upVars, npVars, valVars, pkVars, pdVars, fmVars, psVars, ad, sv>>

(***************************************************************************)
(* Bounds of the model.                                                    *)
(***************************************************************************)
MaxCalls == 2
MaxRows == 2
MaxFiles == 3
MaxMedia == 3
MaxPicks == 2
MaxComments == 1
MaxTaps == 2
MaxFailures == 1
MaxAds == 3
MaxShows == 2
MaxFetches == 2
MaxAuthEvents == 2

Me == "U1"
Users == {"U1", "U2", "U3"}

NullProfile == [id |-> "null", username |-> "null"]
ProfileOf(u) == [id |-> u, username |-> u]

Range(s) == {s[i] : i \in 1..Len(s)}
RemoveAt(s, i) == SubSeq(s, 1, i - 1) \o SubSeq(s, i + 1, Len(s))
Perms(S) == {f \in [1..Cardinality(S) -> S] : \A i, j \in 1..Cardinality(S) : f[i] = f[j] => i = j}

(***************************************************************************)
(* The client-side join of fetchPosts: data.map(post => ({...post,         *)
(* profile: profilesData.find(p => p.id === post.user_id) || null,         *)
(* isLiked: false})).                                                      *)
(***************************************************************************)
FindProfile(profilesData, userId) ==
    IF \E k \in 1..Len(profilesData) : profilesData[k].id = userId
    THEN LET k == CHOOSE k \in 1..Len(profilesData) :
                    /\ profilesData[k].id = userId
                    /\ \A j \in 1..(k - 1) : profilesData[j].id # userId
         IN profilesData[k]
    ELSE NullProfile

JoinByIndex(data, profilesData) ==
    [i \in 1..Len(data) |->
        [id |-> data[i].id, user_id |-> data[i].user_id, likes |-> data[i].likes,
         isLiked |-> FALSE,
         profile |-> IF i <= Len(profilesData) THEN profilesData[i] ELSE NullProfile]]

JoinProfiles(data, profilesData) ==
    [i \in 1..Len(data) |->
        [id |-> data[i].id, user_id |-> data[i].user_id, likes |-> data[i].likes,
         isLiked |-> FALSE,
         profile |-> FindProfile(profilesData, data[i].user_id)]]

\* .from('profiles').select(...).in('id', userIds): the rows whose id is asked for
ProfilesIn(userIds) == {pr \in srvProfiles : pr.id \in userIds}

(***************************************************************************)
(* The optimistic update of handleLikePost and its revert in the catch     *)
(* block, each applied to the post whose id is postId.                     *)
(***************************************************************************)
ToggleNoCount(post) == [post EXCEPT !.isLiked = ~post.isLiked]

Toggle(post) ==
    [post EXCEPT !.likes = IF post.isLiked THEN post.likes - 1 ELSE post.likes + 1,
                 !.isLiked = ~post.isLiked]

Revert(p) ==
    [p EXCEPT !.likes = IF p.isLiked THEN p.likes + 1 ELSE p.likes - 1,
              !.isLiked = ~p.isLiked]

\* prevPosts.map(p => p.id === postId ? {toggled} : p)
TogglePost(list, postId) ==
    [i \in 1..Len(list) |-> IF list[i].id = postId THEN Toggle(list[i]) ELSE list[i]]

\* prevPosts.map(p => p.id === postId ? {reverted} : p)
RevertPost(list, postId) ==
    [i \in 1..Len(list) |-> IF list[i].id = postId THEN Revert(list[i]) ELSE list[i]]

\* every post marked as liked once the user has liked any
MarkLikedAll(list, likedPostIds) ==
    [i \in 1..Len(list) |-> [list[i] EXCEPT !.isLiked = TRUE]]

\* checkUserLikes: prevPosts.map(post => ({...post, isLiked: likedPostIds.includes(post.id)}))
MarkLiked(list, likedPostIds) ==
    [i \in 1..Len(list) |-> [list[i] EXCEPT !.isLiked = (list[i].id \in likedPostIds)]]

\* The effect on [searchQuery, posts] with the initial searchQuery '':
\* setFilteredPosts(posts).  The "plain" variant has no filteredPosts.
FilterEffect(newPosts) == IF variant = "search" THEN newPosts ELSE <<>>

\* The list on screen and whether it is rendered (loading && !refreshing shows a spinner)
Shown == IF variant = "search" THEN filteredPosts ELSE posts
ListVisible == ~(loading /\ ~refreshing)

\* The effect on [posts, session]: a new posts array runs checkUserLikes
\* when session?.user && posts.length > 0.  The queries in flight are all the
\* same query; they are kept as one, answered at once.
ChecksAfter(newPosts) == chkPending \/ (session /\ Len(newPosts) > 0)

\* each run of the effect that calls checkUserLikes sends one more likes query
QueryAfter(newPosts) == IF session /\ Len(newPosts) > 0 THEN 1 - chkQuery ELSE chkQuery

PostById(list, postId) == list[CHOOSE i \in 1..Len(list) : list[i].id = postId]
SrvIdx(postId) == CHOOSE i \in 1..Len(srvPosts) : srvPosts[i].id = postId

(***************************************************************************)
(* Observer of the scenario of one like followed by a refetch: a tap on a   *)
(* post the user has not liked, shown with the server's count c, whose      *)
(* insert and counter update both resolve without error, then a fetchPosts  *)
(* started afterwards, then a checkUserLikes answered after that.           *)
(***************************************************************************)
E2EIdle == [phase |-> "idle", post |-> 0, c |-> 0]

\* lastDone before any handleLikePost has finished
NoCall == [likesRes |-> "none", updateRes |-> "none", alerted |-> FALSE]

(***************************************************************************)
(* Initial states.                                                          *)
(***************************************************************************)
UpIdle ==
    /\ files = <<>>
    /\ hasProgress = FALSE
    /\ upPc = "idle"
    /\ upIdx = 0
    /\ urls = <<>>
    /\ completedUploads = 0
    /\ progressLog = <<>>
    /\ upOutcome = <<>>
    /\ upStarted = <<>>
    /\ upInFlight = {}
    /\ progressFor = <<>>

\* NewPostScreen after mount, nothing typed or selected
NpIdle ==
    /\ content = ""
    /\ selectedMedia = <<>>
    /\ isLoading = FALSE
    /\ uploadProgress = 0
    /\ npPc = "idle"
    /\ npIdx = 0
    /\ retryCount = 0
    /\ mediaUrls = <<>>
    /\ uploadedCount = 0
    /\ npAlert = "none"
    /\ npRows = <<>>
    /\ npFiles = <<>>
    /\ npPauses = 0
    /\ npRemote = 0

\* validateMediaFile not called
NoResult == [valid |-> FALSE, error |-> "none"]

ValIdle ==
    /\ vFile = [fileSize |-> 0, type |-> "undefined"]
    /\ vType = "image"
    /\ vMediaType = "POST"
    /\ vResult = NoResult

\* MediaPicker mounted with nothing selected
PkIdle ==
    /\ mediaFiles = <<>>
    /\ pkMediaType = "POST"
    /\ picks = <<>>
    /\ nPicks = 0
    /\ pkAlert = "none"

\* no PostDetailsScreen is open
PdIdle ==
    /\ pd = <<>>
    /\ pdSrv = <<>>
    /\ pdHist = <<>>

\* neither form is open
FmIdle == fm = <<>>

\* PostsScreen is not open
PsClosed == [session |-> FALSE, srvPosts |-> <<>>, srvLikes |-> {}, pc |-> "off",
             data |-> <<>>, posts |-> <<>>, loading |-> FALSE, refreshing |-> FALSE]
PsIdle == ps = PsClosed

\* the ad pipeline, ServicesScreen and App are not running
AdIdle == ad = <<>>
SvIdle == sv = <<>>
AppIdle == app = <<>>
RestIdle == AdIdle /\ SvIdle /\ AppIdle

\* nothing outside the Discussions screen and PostsScreen is running
OffDiscPsIdle == UpIdle /\ NpIdle /\ ValIdle /\ PkIdle /\ PdIdle /\ FmIdle /\ RestIdle

\* nothing outside the Discussions screen is running
OffDiscIdle == OffDiscPsIdle /\ PsIdle

\* The screen after mount: empty lists, loading, and the mount effect's fetchPosts in flight.
DiscMounted ==
    /\ posts = <<>>
    /\ filteredPosts = <<>>
    /\ loading = TRUE
    /\ refreshing = FALSE
    /\ fetch = [pc |-> "posts", data |-> <<>>, tag |-> FALSE]
    /\ fetchErr = "none"
    /\ chkPending = FALSE
    /\ chkQuery = 0
    /\ calls = <<>>
    /\ nCalls = 0
    /\ lastDone = NoCall
    /\ loginAlert = FALSE
    /\ e2e = E2EIdle

\* Other users' likes of each post: 4 on post 1, none on post 2.
OthersLikes(postId) == IF postId = 1 THEN 4 ELSE 0

\* The posts table: two posts, each counter equal to the number of its likes
\* rows; post 2 is by another user.
PostsTable(author, liked) ==
    <<[id |-> 1, user_id |-> author, likes |-> OthersLikes(1) + (IF 1 \in liked THEN 1 ELSE 0)],
      [id |-> 2, user_id |-> "U2", likes |-> OthersLikes(2) + (IF 2 \in liked THEN 1 ELSE 0)]>>

\* The like button tapped is that of post 1; post 2 is the rest of the feed.
TapPosts == {1}

\* Post 1 is the session user's own or another user's; the session user may
\* have liked either post already; or the table holds no post at all.
Init ==
    /\ session \in BOOLEAN
    /\ variant \in {"search", "plain"}
    /\ srvLikes \in SUBSET {1, 2}
    /\ srvPosts \in {PostsTable(author, srvLikes) : author \in {Me, "U2"}}
                        \cup (IF srvLikes = {} THEN {<<>>} ELSE {})
    /\ srvProfiles = {ProfileOf("U1"), ProfileOf("U2")}
    /\ DiscMounted
    /\ OffDiscIdle

(***************************************************************************)
(* fetchPosts.  At most one invocation is in flight: the mount effect       *)
(* starts the first, and handleRefresh is the RefreshControl's onRefresh,   *)
(* which the list offers only while it is rendered and not refreshing.      *)
(***************************************************************************)
FetchIdle == [pc |-> "idle", data |-> <<>>, tag |-> FALSE]

\* the finally block, after the catch block has logged err (if any)
FinishFetch(err) ==
    /\ fetch' = FetchIdle
    /\ fetchErr' = err
    /\ loading' = FALSE
    /\ refreshing' = FALSE

\* handleRefresh: setRefreshing(true); fetchPosts() up to its first await
HandleRefresh ==
    /\ ListVisible
    /\ ~refreshing
    /\ fetch.pc = "idle"
    /\ refreshing' = TRUE
    /\ loading' = TRUE
    /\ fetch' = [pc |-> "posts", data |-> <<>>, tag |-> (e2e.phase = "liked")]
    /\ UNCHANGED <<session, variant, srvPosts, srvProfiles, srvLikes, posts, filteredPosts,
                   fetchErr, chkPending, chkQuery, calls, nCalls, lastDone, loginAlert, e2e, offDisc>>

\* the posts query resolves with rows: go on to the profiles query
FetchPostsRows ==
    /\ fetch.pc = "posts"
    /\ Len(srvPosts) > 0
    /\ fetch' = [fetch EXCEPT !.pc = "profiles", !.data = srvPosts]
    /\ UNCHANGED <<session, variant, srvPosts, srvProfiles, srvLikes, posts, filteredPosts,
                   loading, refreshing, fetchErr, chkPending, chkQuery, calls, nCalls,
                   lastDone, loginAlert, e2e, offDisc>>

\* the posts query resolves with no rows: setPosts([]), setFilteredPosts([])
FetchPostsEmpty ==
    /\ fetch.pc = "posts"
    /\ Len(srvPosts) = 0
    /\ posts' = <<>>
    /\ filteredPosts' = FilterEffect(posts')
    /\ chkPending' = ChecksAfter(posts')
    /\ chkQuery' = QueryAfter(posts')
    /\ FinishFetch("none")
    /\ UNCHANGED <<session, variant, srvPosts, srvProfiles, srvLikes, calls,
                   nCalls, lastDone, loginAlert, e2e, offDisc>>

\* the posts query resolves with an error: throw, catch, finally
FetchPostsError ==
    /\ fetch.pc = "posts"
    /\ FinishFetch("posts")
    /\ UNCHANGED <<session, variant, srvPosts, srvProfiles, srvLikes, posts, filteredPosts,
                   chkPending, chkQuery, calls, nCalls, lastDone, loginAlert, e2e, offDisc>>

\* the profiles query resolves with rows (in any order): join and set the lists
FetchProfilesRows ==
    /\ fetch.pc = "profiles"
    /\ \E profilesData \in Perms(ProfilesIn({fetch.data[i].user_id : i \in 1..Len(fetch.data)})) :
          posts' = JoinProfiles(fetch.data, profilesData)
    /\ filteredPosts' = FilterEffect(posts')
    /\ chkPending' = ChecksAfter(posts')
    /\ chkQuery' = QueryAfter(posts')
    /\ FinishFetch("none")
    /\ e2e' = IF fetch.tag /\ e2e.phase = "liked"
              THEN [e2e EXCEPT !.phase = "refetched"] ELSE e2e
    /\ UNCHANGED <<session, variant, srvPosts, srvProfiles, srvLikes, calls,
                   nCalls, lastDone, loginAlert, offDisc>>

FetchProfilesErrorNullProfiles ==
    /\ fetch.pc = "profiles"
    /\ posts' = JoinProfiles(fetch.data, <<>>)
    /\ filteredPosts' = FilterEffect(posts')
    /\ FinishFetch("profiles")
    /\ UNCHANGED <<session, variant, srvPosts, srvProfiles, srvLikes,
                   chkPending, chkQuery, calls, nCalls, lastDone, loginAlert, e2e, offDisc>>

\* the profiles query resolves with an error: throw profilesError, catch, finally
FetchProfilesError ==
    /\ fetch.pc = "profiles"
    /\ FinishFetch("profiles")
    /\ UNCHANGED <<session, variant, srvPosts, srvProfiles, srvLikes, posts, filteredPosts,
                   chkPending, chkQuery, calls, nCalls, lastDone, loginAlert, e2e, offDisc>>

(***************************************************************************)
(* handleLikePost.                                                          *)
(***************************************************************************)
\* no session: Alert.alert('Error', 'You need to be logged in to like posts'); return
HandleLikePostNoSession ==
    /\ ~session
    /\ ListVisible
    /\ Len(Shown) > 0
    /\ loginAlert' = TRUE
    /\ UNCHANGED <<session, variant, srvPosts, srvProfiles, srvLikes, posts, filteredPosts,
                   loading, refreshing, fetch, fetchErr, chkPending, chkQuery, calls,
                   nCalls, lastDone, e2e, offDisc>>

\* a tap on the like button of a shown post: the handler up to its first await
\* (find the post, flip posts and filteredPosts, issue the insert or the delete).
\* The call keeps the post of its closure: post.isLiked and post.likes.
HandleLikePost(postId) ==
    /\ session
    /\ ListVisible
    /\ \E i \in 1..Len(Shown) : Shown[i].id = postId
    /\ \E i \in 1..Len(posts) : posts[i].id = postId
    /\ nCalls < MaxCalls
    /\ nCalls' = nCalls + 1
    /\ LET post == PostById(posts, postId) IN
        /\ calls' = Append(calls, [post |-> postId, isLiked |-> post.isLiked,
                                   likes |-> post.likes, pc |-> "likes",
                                   likesRes |-> "pending"])
        /\ e2e' = IF /\ calls = <<>>
                     /\ ~post.isLiked
                     /\ postId \notin srvLikes
                     /\ post.likes = srvPosts[SrvIdx(postId)].likes
                  THEN [phase |-> "tapped", post |-> postId, c |-> post.likes]
                  ELSE IF /\ calls = <<>>
                          /\ e2e.phase = "liked"
                          /\ e2e.post = postId
                          /\ post.isLiked
                          /\ post.likes = e2e.c + 1
                  THEN [e2e EXCEPT !.phase = "untapped"]
                  ELSE E2EIdle
    /\ posts' = TogglePost(posts, postId)
    /\ filteredPosts' = FilterEffect(posts')
    /\ chkPending' = ChecksAfter(posts')
    /\ chkQuery' = QueryAfter(posts')
    /\ UNCHANGED <<session, variant, srvPosts, srvProfiles, srvLikes, loading, refreshing,
                   fetch, fetchErr, lastDone, loginAlert, offDisc>>

\* the handler returns: its invocation leaves calls and lastDone tells how it ended
Finish(i, likesRes, updateRes, alerted) ==
    /\ calls' = RemoveAt(calls, i)
    /\ lastDone' = [likesRes |-> likesRes, updateRes |-> updateRes, alerted |-> alerted]

\* the catch block: revert posts and filteredPosts; the "plain" variant also alerts
CatchRevert(i, likesRes, updateRes) ==
    /\ posts' = RevertPost(posts, calls[i].post)
    /\ filteredPosts' = FilterEffect(posts')
    /\ chkPending' = ChecksAfter(posts')
    /\ chkQuery' = QueryAfter(posts')
    /\ Finish(i, likesRes, updateRes, variant = "plain")
    /\ e2e' = E2EIdle

\* likes.insert resolves without error: the row is new
LikeInsertOk(i) ==
    /\ calls[i].pc = "likes"
    /\ ~calls[i].isLiked
    /\ calls[i].post \notin srvLikes
    /\ srvLikes' = srvLikes \cup {calls[i].post}
    /\ calls' = [calls EXCEPT ![i] = [@ EXCEPT !.pc = "update", !.likesRes = "ok"]]
    /\ UNCHANGED <<session, variant, srvPosts, srvProfiles, posts, filteredPosts, loading,
                   refreshing, fetch, fetchErr, chkPending, chkQuery, nCalls, lastDone,
                   loginAlert, e2e, offDisc>>

\* likes.insert is rejected by UNIQUE(user_id, post_id): it resolves with an
\* error the handler does not read, and the handler goes on
LikeInsertDuplicate(i) ==
    /\ calls[i].pc = "likes"
    /\ ~calls[i].isLiked
    /\ calls[i].post \in srvLikes
    /\ calls' = [calls EXCEPT ![i] = [@ EXCEPT !.pc = "update", !.likesRes = "error"]]
    /\ e2e' = E2EIdle
    /\ UNCHANGED <<session, variant, srvPosts, srvProfiles, srvLikes, posts, filteredPosts,
                   loading, refreshing, fetch, fetchErr, chkPending, chkQuery, nCalls,
                   lastDone, loginAlert, offDisc>>

\* likes.delete resolves without error (also when no row matched)
LikeDeleteOk(i) ==
    /\ calls[i].pc = "likes"
    /\ calls[i].isLiked
    /\ srvLikes' = srvLikes \ {calls[i].post}
    /\ calls' = [calls EXCEPT ![i] = [@ EXCEPT !.pc = "update", !.likesRes = "ok"]]
    /\ UNCHANGED <<session, variant, srvPosts, srvProfiles, posts, filteredPosts, loading,
                   refreshing, fetch, fetchErr, chkPending, chkQuery, nCalls, lastDone,
                   loginAlert, e2e, offDisc>>

\* the insert or delete request fails and resolves with an error: the handler goes on
LikesRequestFailed(i) ==
    /\ calls[i].pc = "likes"
    /\ calls' = [calls EXCEPT ![i] = [@ EXCEPT !.pc = "update", !.likesRes = "error"]]
    /\ e2e' = E2EIdle
    /\ UNCHANGED <<session, variant, srvPosts, srvProfiles, srvLikes, posts, filteredPosts,
                   loading, refreshing, fetch, fetchErr, chkPending, chkQuery, nCalls,
                   lastDone, loginAlert, offDisc>>

\* the insert or delete request fails and the awaited promise rejects: catch
LikesRequestThrows(i) ==
    /\ calls[i].pc = "likes"
    /\ CatchRevert(i, "threw", "none")
    /\ UNCHANGED <<session, variant, srvPosts, srvProfiles, srvLikes, loading, refreshing,
                   fetch, fetchErr, nCalls, loginAlert, offDisc>>

\* posts.update({likes: post.likes +/- 1}).eq('id', postId): the policy "Allow
\* update for post owners" lets it change only a row the session user owns;
\* on any other row it changes nothing and reports no error
UpdateLikes(i) ==
    LET k == SrvIdx(calls[i].post)
        n == IF calls[i].isLiked THEN calls[i].likes - 1 ELSE calls[i].likes + 1
    IN IF srvPosts[k].user_id = Me
       THEN [srvPosts EXCEPT ![k] = [@ EXCEPT !.likes = n]]
       ELSE srvPosts

UpdateCountOk(i) ==
    /\ calls[i].pc = "update"
    /\ srvPosts' = UpdateLikes(i)
    /\ Finish(i, calls[i].likesRes, "ok", FALSE)
    /\ e2e' = IF e2e.phase = "tapped" /\ calls[i].likesRes = "ok"
              THEN [e2e EXCEPT !.phase = "liked"]
              ELSE IF e2e.phase = "untapped" /\ calls[i].likesRes = "ok"
              THEN [e2e EXCEPT !.phase = "unliked"]
              ELSE e2e
    /\ UNCHANGED <<session, variant, srvProfiles, srvLikes, posts, filteredPosts, loading,
                   refreshing, fetch, fetchErr, chkPending, chkQuery, nCalls, loginAlert,
                   offDisc>>

\* the update request fails and resolves with an error: the handler ends
UpdateCountFailed(i) ==
    /\ calls[i].pc = "update"
    /\ Finish(i, calls[i].likesRes, "error", FALSE)
    /\ e2e' = E2EIdle
    /\ UNCHANGED <<session, variant, srvPosts, srvProfiles, srvLikes, posts, filteredPosts,
                   loading, refreshing, fetch, fetchErr, chkPending, chkQuery, nCalls,
                   loginAlert, offDisc>>

\* the update request fails and the awaited promise rejects: catch
UpdateCountThrows(i) ==
    /\ calls[i].pc = "update"
    /\ CatchRevert(i, calls[i].likesRes, "threw")
    /\ UNCHANGED <<session, variant, srvPosts, srvProfiles, srvLikes, loading, refreshing,
                   fetch, fetchErr, nCalls, loginAlert, offDisc>>

(***************************************************************************)
(* checkUserLikes, run by the effect on [posts, session].                   *)
(***************************************************************************)
\* the likes query resolves with at least one row: mark every post
CheckUserLikesRows ==
    /\ chkPending
    /\ srvLikes # {}
    /\ posts' = MarkLiked(posts, srvLikes)
    /\ filteredPosts' = FilterEffect(posts')
    /\ chkPending' = (session /\ Len(posts') > 0)
    /\ chkQuery' = QueryAfter(posts')
    /\ e2e' = IF e2e.phase = "refetched" THEN [e2e EXCEPT !.phase = "checked"] ELSE e2e
    /\ UNCHANGED <<session, variant, srvPosts, srvProfiles, srvLikes, loading, refreshing,
                   fetch, fetchErr, calls, nCalls, lastDone, loginAlert, offDisc>>

\* the likes query resolves with no rows: nothing is set
CheckUserLikesEmpty ==
    /\ chkPending
    /\ srvLikes = {}
    /\ chkPending' = FALSE
    /\ UNCHANGED chkQuery
    /\ UNCHANGED <<session, variant, srvPosts, srvProfiles, srvLikes, posts, filteredPosts,
                   loading, refreshing, fetch, fetchErr, calls, nCalls, lastDone,
                   loginAlert, e2e, offDisc>>

\* the likes query resolves with an error: throw, catch, log
CheckUserLikesError ==
    /\ chkPending
    /\ chkPending' = FALSE
    /\ UNCHANGED chkQuery
    /\ UNCHANGED <<session, variant, srvPosts, srvProfiles, srvLikes, posts, filteredPosts,
                   loading, refreshing, fetch, fetchErr, calls, nCalls, lastDone,
                   loginAlert, e2e, offDisc>>

(***************************************************************************)
(* The Discussions screen.                                                  *)
(***************************************************************************)
FetchNext ==
    \/ HandleRefresh
    \/ FetchPostsRows
    \/ FetchPostsEmpty
    \/ FetchPostsError
    \/ FetchProfilesRows
    \/ FetchProfilesError

Next ==
    \/ FetchNext
    \/ HandleLikePostNoSession
    \/ \E postId \in TapPosts : HandleLikePost(postId)
    \/ \E i \in 1..Len(calls) : LikeInsertOk(i)
    \/ \E i \in 1..Len(calls) : LikeInsertDuplicate(i)
    \/ \E i \in 1..Len(calls) : LikeDeleteOk(i)
    \/ \E i \in 1..Len(calls) : LikesRequestFailed(i)
    \/ \E i \in 1..Len(calls) : LikesRequestThrows(i)
    \/ \E i \in 1..Len(calls) : UpdateCountOk(i)
    \/ \E i \in 1..Len(calls) : UpdateCountFailed(i)
    \/ \E i \in 1..Len(calls) : UpdateCountThrows(i)
    \/ CheckUserLikesRows
    \/ CheckUserLikesEmpty
    \/ CheckUserLikesError

Spec == Init /\ [][Next]_vars

(***************************************************************************)
(* The screen of a signed-in user over a feed of two posts of which the     *)
(* user has liked none yet, post 1 being the user's own.                    *)
(***************************************************************************)
InitSignedIn ==
    /\ session = TRUE
    /\ variant \in {"search", "plain"}
    /\ srvLikes = {}
    /\ srvPosts = PostsTable(Me, srvLikes)
    /\ srvProfiles = {ProfileOf("U1"), ProfileOf("U2")}
    /\ DiscMounted
    /\ OffDiscIdle

NextSignedIn ==
    \/ HandleRefresh
    \/ FetchPostsRows
    \/ FetchPostsError
    \/ FetchProfilesRows
    \/ FetchProfilesError
    \/ \E postId \in TapPosts : HandleLikePost(postId)
    \/ \E i \in 1..Len(calls) : LikeInsertOk(i)
    \/ \E i \in 1..Len(calls) : LikeInsertDuplicate(i)
    \/ \E i \in 1..Len(calls) : LikeDeleteOk(i)
    \/ \E i \in 1..Len(calls) : LikesRequestFailed(i)
    \/ \E i \in 1..Len(calls) : LikesRequestThrows(i)
    \/ \E i \in 1..Len(calls) : UpdateCountOk(i)
    \/ \E i \in 1..Len(calls) : UpdateCountFailed(i)
    \/ \E i \in 1..Len(calls) : UpdateCountThrows(i)
    \/ CheckUserLikesRows
    \/ CheckUserLikesEmpty
    \/ CheckUserLikesError

SpecSignedIn == InitSignedIn /\ [][NextSignedIn]_vars

(***************************************************************************)
(* The same screen when every remote call resolves without error: the mount *)
(* fetch, the like taps and their round trips, and checkUserLikes.          *)
(***************************************************************************)
NextToggle ==
    \/ FetchPostsRows
    \/ FetchProfilesRows
    \/ \E postId \in TapPosts : HandleLikePost(postId)
    \/ \E i \in 1..Len(calls) : LikeInsertOk(i)
    \/ \E i \in 1..Len(calls) : LikeDeleteOk(i)
    \/ \E i \in 1..Len(calls) : UpdateCountOk(i)
    \/ CheckUserLikesRows
    \/ CheckUserLikesEmpty

SpecToggle == InitSignedIn /\ [][NextToggle]_vars

(***************************************************************************)
(* The screen of a signed-in user left alone after mount: fetchPosts and    *)
(* checkUserLikes with no tap and no refresh.  Every query sent is answered *)
(* in the end; that an answer is an error is never guaranteed.              *)
(***************************************************************************)
InitQuiesce ==
    /\ Init
    /\ session = TRUE

NextQuiesce ==
    \/ FetchPostsRows
    \/ FetchPostsEmpty
    \/ FetchPostsError
    \/ FetchProfilesRows
    \/ FetchProfilesError
    \/ CheckUserLikesRows
    \/ CheckUserLikesEmpty
    \/ CheckUserLikesError

SpecQuiesce ==
    /\ InitQuiesce
    /\ [][NextQuiesce]_vars
    /\ WF_vars(FetchPostsRows \/ FetchPostsEmpty)
    /\ WF_vars(FetchProfilesRows)
    /\ WF_vars(CheckUserLikesRows)
    /\ WF_vars(CheckUserLikesEmpty)

(***************************************************************************)
(* The screen of the same signed-in user when the like button tapped is     *)
(* that of post 2, another user's post, which nobody has liked yet.         *)
(***************************************************************************)
TapOthersPosts == {2}

NextOthers ==
    \/ HandleRefresh
    \/ FetchPostsRows
    \/ FetchPostsError
    \/ FetchProfilesRows
    \/ FetchProfilesError
    \/ \E postId \in TapOthersPosts : HandleLikePost(postId)
    \/ \E i \in 1..Len(calls) : LikeInsertOk(i)
    \/ \E i \in 1..Len(calls) : LikeInsertDuplicate(i)
    \/ \E i \in 1..Len(calls) : LikeDeleteOk(i)
    \/ \E i \in 1..Len(calls) : LikesRequestFailed(i)
    \/ \E i \in 1..Len(calls) : LikesRequestThrows(i)
    \/ \E i \in 1..Len(calls) : UpdateCountOk(i)
    \/ \E i \in 1..Len(calls) : UpdateCountFailed(i)
    \/ \E i \in 1..Len(calls) : UpdateCountThrows(i)
    \/ CheckUserLikesRows
    \/ CheckUserLikesEmpty
    \/ CheckUserLikesError

SpecOthers == InitSignedIn /\ [][NextOthers]_vars

(***************************************************************************)
(* fetchPosts alone, over every posts table of up to MaxRows rows by any    *)
(* users and every profiles table; nobody is signed in.                     *)
(***************************************************************************)
PostRows(n) == {r \in [1..n -> [id : 1..MaxRows + 1, user_id : Users, likes : {0}]] :
                    \A i \in 1..n : r[i].id = i}

InitJoin ==
    /\ session = FALSE
    /\ variant \in {"search", "plain"}
    /\ srvLikes = {}
    /\ \E n \in 0..MaxRows : srvPosts \in PostRows(n)
    /\ srvProfiles \in SUBSET {ProfileOf(u) : u \in Users}
    /\ DiscMounted
    /\ OffDiscIdle

SpecJoin == InitJoin /\ [][FetchNext]_vars

(***************************************************************************)
(* uploadMultipleFiles(files, folder, onProgress).                          *)
(***************************************************************************)
FileUris == {"a.jpg", "b.mp4"}

\* data.secure_url of the upload response for a file
SecureUrl(file) == [secure_url |-> file]

PercentRemaining(completed, total) == (200 * (total - completed) + total) \div (2 * total)

\* Math.round((completedUploads / files.length) * 100)
Percent(completed, total) == (200 * completed + total) \div (2 * total)

\* the Discussions screen of a signed-out user over empty tables
DiscOff ==
    /\ session = FALSE
    /\ variant = "plain"
    /\ srvLikes = {}
    /\ srvPosts = <<>>
    /\ srvProfiles = {}
    /\ DiscMounted

OffUpIdle == DiscOff /\ NpIdle /\ ValIdle /\ PkIdle /\ PdIdle /\ FmIdle /\ PsIdle /\ RestIdle

\* the call, up to the first iteration of the loop
InitUpload ==
    /\ OffUpIdle
    /\ \E n \in 0..MaxFiles : files \in [1..n -> FileUris]
    /\ hasProgress \in BOOLEAN
    /\ upPc = "loop"
    /\ upIdx = 1
    /\ urls = <<>>
    /\ completedUploads = 0
    /\ progressLog = <<>>
    /\ upOutcome = <<>>
    /\ upStarted = <<>>
    /\ upInFlight = {}
    /\ progressFor = <<>>

UploadStartNoAwait ==
    /\ upPc = "loop"
    /\ upIdx <= Len(files)
    /\ upStarted' = Append(upStarted, upIdx)
    /\ upInFlight' = upInFlight \cup {upIdx}
    /\ upIdx' = upIdx + 1
    /\ UNCHANGED <<offUp, files, hasProgress, upPc, urls, completedUploads, progressLog,
                   upOutcome, progressFor>>

\* the next iteration: uploadToCloudinary(file, folder) is called and awaited
UploadStart ==
    /\ upPc = "loop"
    /\ upIdx <= Len(files)
    /\ upStarted' = Append(upStarted, upIdx)
    /\ upInFlight' = upInFlight \cup {upIdx}
    /\ upPc' = "await"
    /\ UNCHANGED <<offUp, files, hasProgress, upIdx, urls, completedUploads, progressLog,
                   upOutcome, progressFor>>

\* uploadToCloudinary resolves: push the url, count it, report progress
UploadFileOk ==
    /\ upPc = "await"
    /\ urls' = Append(urls, SecureUrl(files[upIdx]))
    /\ completedUploads' = completedUploads + 1
    /\ progressLog' = IF hasProgress
                      THEN Append(progressLog, Percent(completedUploads', Len(files)))
                      ELSE progressLog
    /\ progressFor' = IF hasProgress THEN Append(progressFor, upIdx) ELSE progressFor
    /\ upOutcome' = Append(upOutcome, TRUE)
    /\ upInFlight' = upInFlight \ {upIdx}
    /\ upIdx' = upIdx + 1
    /\ upPc' = "loop"
    /\ UNCHANGED <<offUp, files, hasProgress, upStarted>>

UploadFileFailAborts ==
    /\ upPc = "await"
    /\ upOutcome' = Append(upOutcome, FALSE)
    /\ upInFlight' = upInFlight \ {upIdx}
    /\ upPc' = "returned"
    /\ UNCHANGED <<offUp, files, hasProgress, upIdx, urls, completedUploads, progressLog,
                   upStarted, progressFor>>

\* uploadToCloudinary rejects: the catch block logs and the loop goes on
UploadFileFail ==
    /\ upPc = "await"
    /\ upOutcome' = Append(upOutcome, FALSE)
    /\ upInFlight' = upInFlight \ {upIdx}
    /\ upIdx' = upIdx + 1
    /\ upPc' = "loop"
    /\ UNCHANGED <<offUp, files, hasProgress, urls, completedUploads, progressLog,
                   upStarted, progressFor>>

\* the loop is over: return urls
UploadReturn ==
    /\ upPc = "loop"
    /\ upIdx > Len(files)
    /\ upPc' = "returned"
    /\ UNCHANGED <<offUp, files, hasProgress, upIdx, urls, completedUploads, progressLog,
                   upOutcome, upStarted, upInFlight, progressFor>>

NextUpload ==
    \/ UploadStart
    \/ UploadFileOk
    \/ UploadFileFail
    \/ UploadReturn

SpecUpload == InitUpload /\ [][NextUpload]_vars

(***************************************************************************)
(* NewPostScreen.handleSubmit, the variant that uploads to the post_media   *)
(* storage bucket with up to three attempts per media.                      *)
(***************************************************************************)
MaxRetries == 3

Contents == {"", "  ", "hi"}

\* content.trim()
Trim(text) == IF text = "  " THEN "" ELSE text

\* supabase.storage.from('post_media').getPublicUrl(data.path).data.publicUrl
PublicUrl(media) == [publicUrl |-> media]

\* Math.round((uploadedCount / selectedMedia.length) * 50)
HalfPercent(count, total) == (100 * count + total) \div (2 * total)

OffNpIdle ==
    /\ variant = "plain"
    /\ srvLikes = {}
    /\ srvPosts = <<>>
    /\ srvProfiles = {}
    /\ DiscMounted
    /\ UpIdle
    /\ ValIdle
    /\ PkIdle
    /\ PdIdle
    /\ FmIdle
    /\ PsIdle
    /\ RestIdle

\* the screen when Post is pressed: some content, some selected media
InitRetry ==
    /\ session \in BOOLEAN
    /\ OffNpIdle
    /\ content \in Contents
    /\ \E n \in 0..MaxMedia : selectedMedia \in [1..n -> FileUris]
    /\ isLoading = FALSE
    /\ uploadProgress = 0
    /\ npPc = "idle"
    /\ npIdx = 0
    /\ retryCount = 0
    /\ mediaUrls = <<>>
    /\ uploadedCount = 0
    /\ npAlert = "none"
    /\ npRows = <<>>
    /\ npFiles = [i \in 1..Len(selectedMedia) |-> [attempts |-> 0, ok |-> FALSE]]
    /\ npPauses = 0
    /\ npRemote = 0

\* if (!content.trim()) { Alert.alert('Error', 'Please enter content for your post'); return; }
HandleSubmitEmptyContent ==
    /\ npPc = "idle"
    /\ Trim(content) = ""
    /\ npAlert' = "Error"
    /\ npPc' = "returned"
    /\ UNCHANGED <<offNp, content, selectedMedia, isLoading, uploadProgress, npIdx, retryCount,
                   mediaUrls, uploadedCount, npRows, npFiles, npPauses, npRemote>>

\* if (!session?.user) { Alert.alert('Error', 'You need to be logged in ...'); return; }
HandleSubmitNoSession ==
    /\ npPc = "idle"
    /\ Trim(content) # ""
    /\ ~session
    /\ npAlert' = "Error"
    /\ npPc' = "returned"
    /\ UNCHANGED <<offNp, content, selectedMedia, isLoading, uploadProgress, npIdx, retryCount,
                   mediaUrls, uploadedCount, npRows, npFiles, npPauses, npRemote>>

\* setIsLoading(true); setUploadProgress(0); await supabase.storage.listBuckets()
HandleSubmit ==
    /\ npPc = "idle"
    /\ Trim(content) # ""
    /\ session
    /\ isLoading' = TRUE
    /\ uploadProgress' = 0
    /\ npPc' = "listBuckets"
    /\ npRemote' = npRemote + 1
    /\ UNCHANGED <<offNp, content, selectedMedia, npIdx, retryCount, mediaUrls, uploadedCount,
                   npAlert, npRows, npFiles, npPauses>>

\* the upload block is entered: the first attempt of the first media is
\* issued, or with no media setUploadProgress(75) and the insert is issued
EnterUploads ==
    /\ mediaUrls' = <<>>
    /\ uploadedCount' = 0
    /\ retryCount' = 0
    /\ npRemote' = npRemote + 1
    /\ IF Len(selectedMedia) > 0
       THEN npPc' = "attempt" /\ npIdx' = 1 /\ UNCHANGED uploadProgress
       ELSE npPc' = "insert" /\ npIdx' = 0 /\ uploadProgress' = 75

\* listBuckets resolves and post_media is among the buckets
ListBucketsFound ==
    /\ npPc = "listBuckets"
    /\ EnterUploads
    /\ UNCHANGED <<offNp, content, selectedMedia, isLoading, npAlert, npRows, npFiles,
                   npPauses>>

\* listBuckets resolves without post_media (or without data): createBucket
ListBucketsMissing ==
    /\ npPc = "listBuckets"
    /\ npPc' = "createBucket"
    /\ npRemote' = npRemote + 1
    /\ UNCHANGED <<offNp, content, selectedMedia, isLoading, uploadProgress, npIdx, retryCount,
                   mediaUrls, uploadedCount, npAlert, npRows, npFiles, npPauses>>

\* createBucket resolves, with or without bucketError: continue anyway
CreateBucketDone ==
    /\ npPc = "createBucket"
    /\ EnterUploads
    /\ UNCHANGED <<offNp, content, selectedMedia, isLoading, npAlert, npRows, npFiles,
                   npPauses>>

\* after the while loop of one media: uploadedCount++, setUploadProgress,
\* then the next media's first attempt, or setUploadProgress(75) and the insert
NextMedia ==
    /\ uploadedCount' = uploadedCount + 1
    /\ retryCount' = 0
    /\ npRemote' = npRemote + 1
    /\ IF npIdx < Len(selectedMedia)
       THEN /\ npPc' = "attempt"
            /\ npIdx' = npIdx + 1
            /\ uploadProgress' = HalfPercent(uploadedCount', Len(selectedMedia))
       ELSE /\ npPc' = "insert"
            /\ npIdx' = npIdx
            /\ uploadProgress' = 75

\* fetch(media.uri), response.blob() and the storage upload all succeed
AttemptOk ==
    /\ npPc = "attempt"
    /\ mediaUrls' = Append(mediaUrls, PublicUrl(selectedMedia[npIdx]))
    /\ npFiles' = [npFiles EXCEPT ![npIdx] = [attempts |-> @.attempts + 1, ok |-> TRUE]]
    /\ NextMedia
    /\ UNCHANGED <<offNp, content, selectedMedia, isLoading, npAlert, npRows, npPauses>>

\* one of them fails: retryCount++, then the pause of one second
AttemptFail ==
    /\ npPc = "attempt"
    /\ npFiles' = [npFiles EXCEPT ![npIdx].attempts = @ + 1]
    /\ retryCount' = retryCount + 1
    /\ npPc' = "pause"
    /\ UNCHANGED <<offNp, content, selectedMedia, isLoading, uploadProgress, npIdx, mediaUrls,
                   uploadedCount, npAlert, npRows, npPauses, npRemote>>

PauseDoneNoLimit ==
    /\ npPc = "pause"
    /\ npPauses' = npPauses + 1
    /\ npPc' = "attempt"
    /\ npRemote' = npRemote + 1
    /\ UNCHANGED <<offNp, content, selectedMedia, isLoading, npAlert, npRows, npFiles,
                   mediaUrls, uploadProgress, npIdx, retryCount, uploadedCount>>

\* the pause is over: while (!uploadSuccess && retryCount < 3)
PauseDone ==
    /\ npPc = "pause"
    /\ npPauses' = npPauses + 1
    /\ IF retryCount < MaxRetries
       THEN /\ npPc' = "attempt"
            /\ npRemote' = npRemote + 1
            /\ UNCHANGED <<uploadProgress, npIdx, retryCount, uploadedCount>>
       ELSE NextMedia
    /\ UNCHANGED <<offNp, content, selectedMedia, isLoading, npAlert, npRows, npFiles,
                   mediaUrls>>

\* the finally block
NpFinally ==
    /\ isLoading' = FALSE
    /\ uploadProgress' = 0
    /\ npPc' = "returned"

\* media: mediaUrls.length > 0 ? mediaUrls : null
MediaColumn(list) == [null |-> (Len(list) = 0), urls |-> list]

\* the insert resolves without error: alert Success
InsertOk ==
    /\ npPc = "insert"
    /\ npRows' = Append(npRows, [content |-> Trim(content), media |-> MediaColumn(mediaUrls)])
    /\ npAlert' = "Success"
    /\ NpFinally
    /\ UNCHANGED <<offNp, content, selectedMedia, npIdx, retryCount, mediaUrls, uploadedCount,
                   npFiles, npPauses, npRemote>>

\* the insert fails: with media selected, insert again without media
InsertError ==
    /\ npPc = "insert"
    /\ IF Len(selectedMedia) > 0
       THEN /\ npPc' = "fallback"
            /\ npRemote' = npRemote + 1
            /\ UNCHANGED <<isLoading, uploadProgress, npAlert>>
       ELSE /\ npAlert' = "Error"
            /\ NpFinally
            /\ UNCHANGED npRemote
    /\ UNCHANGED <<offNp, content, selectedMedia, npIdx, retryCount, mediaUrls, uploadedCount,
                   npRows, npFiles, npPauses>>

\* the fallback insert resolves without error: alert Partial Success
FallbackOk ==
    /\ npPc = "fallback"
    /\ npRows' = Append(npRows, [content |-> Trim(content), media |-> MediaColumn(<<>>)])
    /\ npAlert' = "Partial Success"
    /\ NpFinally
    /\ UNCHANGED <<offNp, content, selectedMedia, npIdx, retryCount, mediaUrls, uploadedCount,
                   npFiles, npPauses, npRemote>>

\* the fallback insert fails too: alert Error
FallbackError ==
    /\ npPc = "fallback"
    /\ npAlert' = "Error"
    /\ NpFinally
    /\ UNCHANGED <<offNp, content, selectedMedia, npIdx, retryCount, mediaUrls, uploadedCount,
                   npRows, npFiles, npPauses, npRemote>>

NextRetry ==
    \/ HandleSubmitEmptyContent
    \/ HandleSubmitNoSession
    \/ HandleSubmit
    \/ ListBucketsFound
    \/ ListBucketsMissing
    \/ CreateBucketDone
    \/ AttemptOk
    \/ AttemptFail
    \/ PauseDone
    \/ InsertOk
    \/ InsertError
    \/ FallbackOk
    \/ FallbackError

\* every pending remote call and every pause ends
SpecRetry == InitRetry /\ [][NextRetry]_vars /\ WF_vars(NextRetry)

(***************************************************************************)
(* validateMediaFile(file, type, mediaType).                                *)
(***************************************************************************)
MB == 1024 * 1024

MediaTypes == {"SERVICE", "POST", "COMMENT"}

MAX_IMAGES(mediaType) == CASE mediaType = "SERVICE" -> 5
                           [] mediaType = "POST" -> 3
                           [] mediaType = "COMMENT" -> 1
MAX_VIDEOS(mediaType) == 1
MAX_IMAGE_SIZE(mediaType) == 1024 * 1024
MAX_VIDEO_SIZE(mediaType) == 5 * 1024 * 1024
MAX_VIDEO_DURATION(mediaType) == 15

ALLOWED_IMAGE_TYPES == {"image/jpeg", "image/png", "image/gif", "image/webp"}
ALLOWED_VIDEO_TYPES == {"video/mp4", "video/quicktime", "video/x-msvideo"}

ValidateTypeOnly(file, type, mediaType) ==
    LET allowedTypes == IF type = "image" THEN ALLOWED_IMAGE_TYPES ELSE ALLOWED_VIDEO_TYPES
    IN IF file.type \in allowedTypes
       THEN [valid |-> TRUE, error |-> "null"]
       ELSE [valid |-> FALSE, error |-> "format"]

validateMediaFile(file, type, mediaType) ==
    LET maxSize == IF type = "image" THEN MAX_IMAGE_SIZE(mediaType)
                   ELSE MAX_VIDEO_SIZE(mediaType)
        allowedTypes == IF type = "image" THEN ALLOWED_IMAGE_TYPES ELSE ALLOWED_VIDEO_TYPES
    IN IF file.fileSize > maxSize
       THEN [valid |-> FALSE, error |-> "size"]
       ELSE IF file.type \notin allowedTypes
            THEN [valid |-> FALSE, error |-> "format"]
            ELSE [valid |-> TRUE, error |-> "null"]

\* sizes around the two ceilings, and types in and outside the allow-lists
\* ("undefined": the asset carries no type)
FileSizes == {0, MB - 1, MB, MB + 1, 2 * MB, 5 * MB, 5 * MB + 1}
FileTypes == ALLOWED_IMAGE_TYPES \cup ALLOWED_VIDEO_TYPES \cup {"image/bmp", "undefined"}
FilesToValidate == [fileSize : FileSizes, type : FileTypes]

OffValIdle ==
    /\ DiscOff
    /\ UpIdle
    /\ NpIdle
    /\ PkIdle
    /\ PdIdle
    /\ FmIdle
    /\ PsIdle
    /\ RestIdle

InitValidate ==
    /\ OffValIdle
    /\ vFile \in FilesToValidate
    /\ vType \in {"image", "video"}
    /\ vMediaType \in MediaTypes
    /\ vResult = NoResult

CallValidateMediaFile ==
    /\ vResult = NoResult
    /\ vResult' = validateMediaFile(vFile, vType, vMediaType)
    /\ UNCHANGED <<offVal, vFile, vType, vMediaType>>

SpecValidate == InitValidate /\ [][CallValidateMediaFile]_vars

(***************************************************************************)
(* MediaPicker: pickImage, pickVideo, removeMedia.  A pick that opened the  *)
(* library holds the mediaFiles of the render in which it was started.      *)
(***************************************************************************)
Jpeg == [fileSize |-> MB, type |-> "image/jpeg", duration |-> 0]
BigJpeg == [fileSize |-> 2 * MB, type |-> "image/jpeg", duration |-> 0]
Mp4 == [fileSize |-> 5 * MB, type |-> "video/mp4", duration |-> 10]
LongMp4 == [fileSize |-> MB, type |-> "video/mp4", duration |-> 60]
BigMp4 == [fileSize |-> 5 * MB + 1, type |-> "video/mp4", duration |-> 10]

\* what the library can hand back for a photo pick and for a video pick
LibraryImages == {Jpeg, BigJpeg}
LibraryVideos == {Mp4, LongMp4, BigMp4}

imageLimit == MAX_IMAGES(pkMediaType)
videoLimit == MAX_VIDEOS(pkMediaType)
CountOf(list, types) == Cardinality({i \in 1..Len(list) : list[i].type \in types})
currentImages == CountOf(mediaFiles, ALLOWED_IMAGE_TYPES)
currentVideos == CountOf(mediaFiles, ALLOWED_VIDEO_TYPES)

OffPkIdle ==
    /\ DiscOff
    /\ UpIdle
    /\ NpIdle
    /\ ValIdle
    /\ PdIdle
    /\ FmIdle
    /\ PsIdle
    /\ RestIdle

InitPicker ==
    /\ OffPkIdle
    /\ mediaFiles = <<>>
    /\ pkMediaType \in MediaTypes
    /\ picks = <<>>
    /\ nPicks = 0
    /\ pkAlert = "none"

\* pickImage with the limit reached: alert and return
PickImageLimit ==
    /\ currentImages >= imageLimit
    /\ pkAlert' = "Limit Reached"
    /\ UNCHANGED <<offPk, mediaFiles, pkMediaType, picks, nPicks>>

\* pickImage: launchImageLibrary({mediaType: 'photo', selectionLimit: imageLimit - currentImages})
PickImage ==
    /\ currentImages < imageLimit
    /\ nPicks < MaxPicks
    /\ picks' = Append(picks, [kind |-> "image", mediaFiles |-> mediaFiles,
                               selectionLimit |-> imageLimit - currentImages])
    /\ nPicks' = nPicks + 1
    /\ UNCHANGED <<offPk, mediaFiles, pkMediaType, pkAlert>>

\* pickVideo with the limit reached: alert and return
PickVideoLimit ==
    /\ currentVideos >= videoLimit
    /\ pkAlert' = "Limit Reached"
    /\ UNCHANGED <<offPk, mediaFiles, pkMediaType, picks, nPicks>>

\* pickVideo: launchImageLibrary({mediaType: 'video', selectionLimit: 1})
PickVideo ==
    /\ currentVideos < videoLimit
    /\ nPicks < MaxPicks
    /\ picks' = Append(picks, [kind |-> "video", mediaFiles |-> mediaFiles,
                               selectionLimit |-> 1])
    /\ nPicks' = nPicks + 1
    /\ UNCHANGED <<offPk, mediaFiles, pkMediaType, pkAlert>>

\* result.didCancel: return
PickCancelled(i) ==
    /\ picks' = RemoveAt(picks, i)
    /\ UNCHANGED <<offPk, mediaFiles, pkMediaType, nPicks, pkAlert>>

\* result.errorCode, or launchImageLibrary rejects: alert Error
PickErrored(i) ==
    /\ picks' = RemoveAt(picks, i)
    /\ pkAlert' = "Error"
    /\ UNCHANGED <<offPk, mediaFiles, pkMediaType, nPicks>>

\* pickImage, result.assets: keep the assets that pass validateMediaFile
PickImageAssets(i) ==
    /\ picks[i].kind = "image"
    /\ \E n \in 1..(IF picks[i].selectionLimit < 2 THEN picks[i].selectionLimit ELSE 2) :
       \E assets \in [1..n -> LibraryImages] :
          LET validatedAssets ==
                  SelectSeq(assets, LAMBDA asset :
                                validateMediaFile(asset, "image", pkMediaType).valid)
          IN /\ mediaFiles' = IF Len(validatedAssets) > 0
                              THEN picks[i].mediaFiles \o validatedAssets
                              ELSE mediaFiles
             /\ pkAlert' = IF Len(validatedAssets) < Len(assets)
                           THEN "Invalid Image" ELSE pkAlert
    /\ picks' = RemoveAt(picks, i)
    /\ UNCHANGED <<offPk, pkMediaType, nPicks>>

\* pickVideo whose result is appended to the list of the current render
\* instead of the list its closure captured
PickVideoAssetOnCurrent(i) ==
    /\ picks[i].kind = "video"
    /\ \E asset \in LibraryVideos :
          LET validation == validateMediaFile(asset, "video", pkMediaType)
          IN IF validation.valid
             THEN /\ mediaFiles' = Append(mediaFiles, asset)
                  /\ UNCHANGED pkAlert
             ELSE /\ pkAlert' = "Invalid Video"
                  /\ UNCHANGED mediaFiles
    /\ picks' = RemoveAt(picks, i)
    /\ UNCHANGED <<offPk, pkMediaType, nPicks>>

\* pickVideo, result.assets: add assets[0] if it passes validateMediaFile
PickVideoAsset(i) ==
    /\ picks[i].kind = "video"
    /\ \E asset \in LibraryVideos :
          LET validation == validateMediaFile(asset, "video", pkMediaType)
          IN IF validation.valid
             THEN /\ mediaFiles' = Append(picks[i].mediaFiles, asset)
                  /\ UNCHANGED pkAlert
             ELSE /\ pkAlert' = "Invalid Video"
                  /\ UNCHANGED mediaFiles
    /\ picks' = RemoveAt(picks, i)
    /\ UNCHANGED <<offPk, pkMediaType, nPicks>>

\* removeMedia(index)
RemoveMedia(index) ==
    /\ mediaFiles' = RemoveAt(mediaFiles, index)
    /\ UNCHANGED <<offPk, pkMediaType, picks, nPicks, pkAlert>>

NextPicker ==
    \/ PickImageLimit
    \/ PickImage
    \/ PickVideoLimit
    \/ PickVideo
    \/ \E i \in 1..Len(picks) : PickCancelled(i)
    \/ \E i \in 1..Len(picks) : PickErrored(i)
    \/ \E i \in 1..Len(picks) : PickImageAssets(i)
    \/ \E i \in 1..Len(picks) : PickVideoAsset(i)
    \/ \E index \in 1..Len(mediaFiles) : RemoveMedia(index)

SpecPicker == InitPicker /\ [][NextPicker]_vars

(***************************************************************************)
(* PostDetailsScreen of one post, open on the devices of two users.         *)
(* fetchPostDetails is one step; handleLike and submitComment are one step  *)
(* per remote call.  Each handler works on the post, liked and comments of  *)
(* the render in which it was started.                                      *)
(***************************************************************************)
Clients == {"U1", "U2"}

\* the clients whose user writes in the comment box
Commenters == {"U1"}

\* the likes counter of the post before either client has liked it
InitialLikes == 4

NoPost == [loaded |-> FALSE, likes |-> 0, comments |-> 0]
NoLike == [pc |-> "idle", liked |-> FALSE, post |-> NoPost]
NoSubmit == [pc |-> "idle", post |-> NoPost, comments |-> <<>>, content |-> "", data |-> 0]

\* outside PostDetailsScreen and the two forms nothing is running
OffPdFmIdle ==
    /\ DiscOff
    /\ UpIdle
    /\ NpIdle
    /\ ValIdle
    /\ PkIdle
    /\ PsIdle
    /\ RestIdle

OffPdIdle == OffPdFmIdle /\ FmIdle

\* two devices have just opened the screen of a post that U1, U2 or a third
\* user wrote; U2 is signed in, U1 may not be
PdOpen ==
    /\ \E owner \in Users :
          pdSrv = [likes |-> InitialLikes, comments |-> 0, user_id |-> owner,
                   likeRows |-> {}, commentRows |-> <<>>]
    /\ \E s1 \in BOOLEAN, text \in Contents :
          pd = [c \in Clients |->
                  [session |-> (c = "U2" \/ s1), post |-> NoPost, loading |-> TRUE,
                   liked |-> FALSE, comments |-> <<>>,
                   newComment |-> IF c \in Commenters THEN text ELSE "",
                   submitting |-> FALSE, alert |-> "none",
                   like |-> NoLike, submit |-> NoSubmit]]
    /\ pdHist = [failures |-> 0, nSubmits |-> 0, nTaps |-> 0]

InitDetails == OffPdIdle /\ PdOpen

\* a remote call may still fail
MayFail == pdHist.failures < MaxFailures
Failed == [pdHist EXCEPT !.failures = @ + 1]

PdSet(c, field, value) == [pd EXCEPT ![c][field] = value]

\* fetchPostDetails: post, comments and the like row are fetched
FetchPostDetails(c) ==
    /\ pd[c].loading
    /\ pd' = [pd EXCEPT ![c].loading = FALSE,
                        ![c].post = [loaded |-> TRUE, likes |-> pdSrv.likes,
                                     comments |-> pdSrv.comments],
                        ![c].comments = [i \in 1..Len(pdSrv.commentRows) |->
                                            pdSrv.commentRows[i].id],
                        ![c].liked = (pd[c].session /\ c \in pdSrv.likeRows)]
    /\ UNCHANGED <<offPd, pdSrv, pdHist>>

\* fetchPostDetails: getPostById throws: alert, post stays null (Post not found)
FetchPostDetailsError(c) ==
    /\ pd[c].loading
    /\ MayFail
    /\ pdHist' = Failed
    /\ pd' = [pd EXCEPT ![c].loading = FALSE, ![c].alert = "Failed to load post details"]
    /\ UNCHANGED <<offPd, pdSrv>>

\* fetchPostDetails: the post is set, then the comments query fails
FetchPostDetailsCommentsError(c) ==
    /\ pd[c].loading
    /\ MayFail
    /\ pdHist' = Failed
    /\ pd' = [pd EXCEPT ![c].loading = FALSE,
                        ![c].post = [loaded |-> TRUE, likes |-> pdSrv.likes,
                                     comments |-> pdSrv.comments],
                        ![c].alert = "Failed to load post details"]
    /\ UNCHANGED <<offPd, pdSrv>>

\* the post card with the like button and the comment box is rendered
PdRendered(c) == ~pd[c].loading /\ pd[c].post.loaded

\* handleLike without a session: alert and return
HandleLikeNoSession(c) ==
    /\ PdRendered(c)
    /\ ~pd[c].session
    /\ pd' = PdSet(c, "alert", "You need to be logged in to like posts")
    /\ UNCHANGED <<offPd, pdSrv, pdHist>>

\* handleLike, one call at a time per screen: the delete or insert on likes is
\* issued; nothing is set locally
HandleLike(c) ==
    /\ PdRendered(c)
    /\ pd[c].session
    /\ pd[c].like.pc = "idle"
    /\ pdHist.nTaps < MaxTaps
    /\ pdHist' = [pdHist EXCEPT !.nTaps = @ + 1]
    /\ pd' = PdSet(c, "like", [pc |-> "likes", liked |-> pd[c].liked, post |-> pd[c].post])
    /\ UNCHANGED <<offPd, pdSrv>>

\* the delete or insert resolves; its result is not looked at, so a rejected
\* duplicate insert goes on like an accepted one; the counter update is issued
PdLikesResolved(c) ==
    /\ pd[c].like.pc = "likes"
    /\ pdSrv' = [pdSrv EXCEPT !.likeRows = IF pd[c].like.liked THEN @ \ {c} ELSE @ \cup {c}]
    /\ pdHist' = IF pd[c].like.liked <=> c \in pdSrv.likeRows THEN pdHist ELSE Failed
    /\ pd' = [pd EXCEPT ![c].like.pc = "update"]
    /\ UNCHANGED offPd

\* the delete or insert resolves with an error (request failed), not looked at
PdLikesFailed(c) ==
    /\ pd[c].like.pc = "likes"
    /\ MayFail
    /\ pdHist' = Failed
    /\ pd' = [pd EXCEPT ![c].like.pc = "update"]
    /\ UNCHANGED <<offPd, pdSrv>>

\* an awaited promise of handleLike rejects: catch, alert
PdLikeThrows(c) ==
    /\ pd[c].like.pc \in {"likes", "update"}
    /\ MayFail
    /\ pdHist' = Failed
    /\ pd' = [pd EXCEPT ![c].like = NoLike, ![c].alert = "Failed to like/unlike post"]
    /\ UNCHANGED <<offPd, pdSrv>>

\* update({likes: post.likes -/+ 1}) of the render the handler was started in
PdNewLikes(c) == IF pd[c].like.liked THEN pd[c].like.post.likes - 1
                 ELSE pd[c].like.post.likes + 1

\* setPost({...post, likes}); setLiked(!liked)
PdLikeApplied(c) ==
    [pd EXCEPT ![c].post = [pd[c].like.post EXCEPT !.likes = PdNewLikes(c)],
               ![c].liked = ~pd[c].like.liked,
               ![c].like = NoLike]

\* the counter update resolves without error; the policy "Allow update for
\* post owners" lets it change the row only when the client owns the post
PdUpdateResolved(c) ==
    /\ pd[c].like.pc = "update"
    /\ pdSrv' = IF pdSrv.user_id = c THEN [pdSrv EXCEPT !.likes = PdNewLikes(c)] ELSE pdSrv
    /\ pd' = PdLikeApplied(c)
    /\ UNCHANGED <<offPd, pdHist>>

\* the counter update resolves with an error, not looked at
PdUpdateFailed(c) ==
    /\ pd[c].like.pc = "update"
    /\ MayFail
    /\ pdHist' = Failed
    /\ pd' = PdLikeApplied(c)
    /\ UNCHANGED <<offPd, pdSrv>>

\* the comment box, written in while it is empty: onChangeText={setNewComment}
TypeComment(c, text) ==
    /\ PdRendered(c)
    /\ pd[c].newComment = ""
    /\ text # ""
    /\ pd' = PdSet(c, "newComment", text)
    /\ UNCHANGED <<offPd, pdSrv, pdHist>>

\* submitComment without a session: alert and return
SubmitCommentNoSession(c) ==
    /\ PdRendered(c)
    /\ ~pd[c].submitting
    /\ ~pd[c].session
    /\ pd' = PdSet(c, "alert", "You need to be logged in to comment")
    /\ UNCHANGED <<offPd, pdSrv, pdHist>>

\* submitComment with nothing but blanks in the box: alert and return
SubmitCommentEmpty(c) ==
    /\ PdRendered(c)
    /\ ~pd[c].submitting
    /\ pd[c].session
    /\ Trim(pd[c].newComment) = ""
    /\ pd' = PdSet(c, "alert", "Comment cannot be empty")
    /\ UNCHANGED <<offPd, pdSrv, pdHist>>

\* submitComment: setSubmitting(true), the insert on comments is issued
SubmitComment(c) ==
    /\ PdRendered(c)
    /\ ~pd[c].submitting
    /\ pd[c].session
    /\ Trim(pd[c].newComment) # ""
    /\ pdHist.nSubmits < MaxComments
    /\ pd' = [pd EXCEPT ![c].submitting = TRUE,
                        ![c].submit = [pc |-> "insert", post |-> pd[c].post,
                                       comments |-> pd[c].comments,
                                       content |-> Trim(pd[c].newComment), data |-> 0]]
    /\ pdHist' = [pdHist EXCEPT !.nSubmits = @ + 1]
    /\ UNCHANGED <<offPd, pdSrv>>

\* the insert returns the new row; the counter update is issued
CommentInsertOk(c) ==
    /\ pd[c].submit.pc = "insert"
    /\ LET id == Len(pdSrv.commentRows) + 1
       IN /\ pdSrv' = [pdSrv EXCEPT !.commentRows = Append(@, [id |-> id, user_id |-> c])]
          /\ pd' = [pd EXCEPT ![c].submit.pc = "update", ![c].submit.data = id]
    /\ UNCHANGED <<offPd, pdHist>>

\* catch and finally of submitComment
PdSubmitCaught(c) ==
    [pd EXCEPT ![c].submit = NoSubmit, ![c].alert = "Failed to add comment",
               ![c].submitting = FALSE]

\* the insert resolves with an error: throw error
CommentInsertError(c) ==
    /\ pd[c].submit.pc = "insert"
    /\ pd' = PdSubmitCaught(c)
    /\ MayFail
    /\ pdHist' = Failed
    /\ UNCHANGED <<offPd, pdSrv>>

\* update({comments: post.comments + 1}) resolves without error; the policy
\* lets it change the row only when the client owns the post
CommentUpdateResolved(c) ==
    /\ pd[c].submit.pc = "update"
    /\ pdSrv' = IF pdSrv.user_id = c
                THEN [pdSrv EXCEPT !.comments = pd[c].submit.post.comments + 1]
                ELSE pdSrv
    /\ pd' = [pd EXCEPT ![c].submit.pc = "profile"]
    /\ UNCHANGED <<offPd, pdHist>>

\* the counter update resolves with an error, not looked at
CommentUpdateFailed(c) ==
    /\ pd[c].submit.pc = "update"
    /\ MayFail
    /\ pdHist' = Failed
    /\ pd' = [pd EXCEPT ![c].submit.pc = "profile"]
    /\ UNCHANGED <<offPd, pdSrv>>

\* the profile query resolves (its error is not looked at): setComments,
\* setPost and setNewComment with the values of the render submitComment was
\* started in, then finally
CommentProfileResolved(c) ==
    /\ pd[c].submit.pc = "profile"
    /\ pd' = [pd EXCEPT ![c].comments = Append(pd[c].submit.comments, pd[c].submit.data),
                        ![c].post = [pd[c].submit.post EXCEPT !.comments = @ + 1],
                        ![c].newComment = "",
                        ![c].submit = NoSubmit,
                        ![c].submitting = FALSE]
    /\ UNCHANGED <<offPd, pdSrv, pdHist>>

\* an awaited promise after the insert rejects: catch, finally
CommentLaterThrows(c) ==
    /\ pd[c].submit.pc \in {"update", "profile"}
    /\ pd' = PdSubmitCaught(c)
    /\ MayFail
    /\ pdHist' = Failed
    /\ UNCHANGED <<offPd, pdSrv>>

NextLike ==
    \E c \in Clients :
        \/ FetchPostDetails(c)
        \/ FetchPostDetailsError(c)
        \/ FetchPostDetailsCommentsError(c)
        \/ HandleLikeNoSession(c)
        \/ HandleLike(c)
        \/ PdLikesResolved(c)
        \/ PdLikesFailed(c)
        \/ PdLikeThrows(c)
        \/ PdUpdateResolved(c)
        \/ PdUpdateFailed(c)

NextComment ==
    \E c \in Commenters \cap DOMAIN pd :
        \/ \E text \in Contents : TypeComment(c, text)
        \/ SubmitCommentNoSession(c)
        \/ SubmitCommentEmpty(c)
        \/ SubmitComment(c)
        \/ CommentInsertOk(c)
        \/ CommentInsertError(c)
        \/ CommentUpdateResolved(c)
        \/ CommentUpdateFailed(c)
        \/ CommentProfileResolved(c)
        \/ CommentLaterThrows(c)

NextDetails == NextLike \/ NextComment

SpecDetails == InitDetails /\ [][NextDetails]_vars

(***************************************************************************)
(* handleSubmit of AddServiceScreen and of NewPostScreen (the variant that  *)
(* uploads through uploadMultipleFiles), one step per awaited call.  The    *)
(* call to uploadMultipleFiles is one step here; remote is the set of the   *)
(* remote calls the handler has issued.                                     *)
(***************************************************************************)
Forms == {"AddService", "NewPost"}

\* the text fields handleSubmit requires
Required(f) == IF f = "AddService" THEN {"title", "description", "price", "location"}
               ELSE {"content"}

\* one of the forms as the user has filled it in: at most one required field
\* is left empty or blank
FmOpen ==
    \E form \in Forms, s \in BOOLEAN, n \in 0..MaxMedia :
        \E blank \in Required(form) \cup {"none"}, text \in {"", "  "} :
            fm = [f \in {form} |->
                    [session |-> s,
                     fields |-> [g \in Required(f) |-> IF g = blank THEN text ELSE "hi"],
                     mediaFiles |-> n, isLoading |-> FALSE, uploadProgress |-> 0,
                     pc |-> "idle", alert |-> "none", remote |-> {}, mediaUrls |-> <<>>,
                     uploaded |-> {}, rows |-> <<>>]]

Filled(f) == \A g \in Required(f) : Trim(fm[f].fields[g]) # ""

\* the submit button: AddServiceScreen renders it while !isLoading,
\* NewPostScreen disables it while !content.trim() || isLoading
ButtonEnabled(f) ==
    /\ f \in DOMAIN fm
    /\ fm[f].pc = "idle"
    /\ ~fm[f].isLoading
    /\ f = "NewPost" => Filled(f)

\* the alert of the first check of handleSubmit that fails: AddServiceScreen
\* checks the session first, NewPostScreen the content first
InvalidAlert(f) ==
    IF f = "AddService"
    THEN IF ~fm[f].session THEN "You need to be logged in"
         ELSE "Please fill in all the required fields"
    ELSE IF ~Filled(f) THEN "Please enter content for your post"
         ELSE "You need to be logged in to create a post"

\* handleSubmit without its two checks
FormSubmitUnchecked(f) ==
    /\ ButtonEnabled(f)
    /\ ~(fm[f].session /\ Filled(f))
    /\ fm' = [fm EXCEPT ![f].isLoading = TRUE, ![f].pc = "insert",
                        ![f].remote = @ \cup {"insert"}]
    /\ UNCHANGED offFm

\* handleSubmit with no session or a blank required field: alert and return
FormSubmitInvalid(f) ==
    /\ ButtonEnabled(f)
    /\ ~(fm[f].session /\ Filled(f))
    /\ fm' = [fm EXCEPT ![f].alert = InvalidAlert(f)]
    /\ UNCHANGED offFm

\* handleSubmit: setIsLoading(true), setUploadProgress(0), then the upload
\* when there is media, else setUploadProgress(80) and the insert
FormSubmit(f) ==
    /\ ButtonEnabled(f)
    /\ fm[f].session
    /\ Filled(f)
    /\ fm' = [fm EXCEPT ![f].isLoading = TRUE, ![f].mediaUrls = <<>>, ![f].uploaded = {},
                        ![f].uploadProgress = IF fm[f].mediaFiles > 0 THEN 0 ELSE 80,
                        ![f].pc = IF fm[f].mediaFiles > 0 THEN "upload" ELSE "insert",
                        ![f].remote = @ \cup {IF fm[f].mediaFiles > 0 THEN "upload" ELSE "insert"}]
    /\ UNCHANGED offFm

\* const urls = await uploadMultipleFiles(...): the secure urls of the files
\* (numbered 1..n) that went through, in the order of the files
UrlsOfUploaded(n, uploaded) ==
    LET done == SelectSeq([i \in 1..n |-> i], LAMBDA i : i \in uploaded)
    IN [j \in 1..Len(done) |-> SecureUrl(done[j])]

\* the urls in the order opposite to that of the files
UrlsOfUploadedReversed(n, uploaded) ==
    LET done == SelectSeq([i \in 1..n |-> i], LAMBDA i : i \in uploaded)
    IN [j \in 1..Len(done) |-> SecureUrl(done[Len(done) + 1 - j])]

\* the urls returned for form f, last file first
UploadedUrlsReversed(f, uploaded) == UrlsOfUploadedReversed(fm[f].mediaFiles, uploaded)

\* the urls returned for form f when the files in uploaded went through
UploadedUrls(f, uploaded) == UrlsOfUploaded(fm[f].mediaFiles, uploaded)

\* uploadMultipleFiles returns: mediaUrls.push(...urls), setUploadProgress(80),
\* the insert is issued
FormUploaded(f, uploaded) ==
    /\ f \in DOMAIN fm
    /\ fm[f].pc = "upload"
    /\ uploaded \subseteq 1..fm[f].mediaFiles
    /\ fm' = [fm EXCEPT ![f].mediaUrls = UploadedUrls(f, uploaded),
                        ![f].uploaded = uploaded,
                        ![f].uploadProgress = 80,
                        ![f].pc = "insert",
                        ![f].remote = @ \cup {"insert"}]
    /\ UNCHANGED offFm

\* the media column of the row: mediaUrls.length > 0 ? mediaUrls : null for a
\* post, mediaUrls for a service
FormMedia(f) ==
    [null |-> (f = "NewPost" /\ Len(fm[f].mediaUrls) = 0), urls |-> fm[f].mediaUrls]

\* the insert resolves without error: setUploadProgress(100), showInterstitialAd
FormInsertOk(f) ==
    /\ f \in DOMAIN fm
    /\ fm[f].pc = "insert"
    /\ fm' = [fm EXCEPT ![f].uploadProgress = 100, ![f].pc = "ad",
                        ![f].rows = Append(@, [media |-> FormMedia(f)]),
                        ![f].remote = @ \cup {"ad"}]
    /\ UNCHANGED offFm

\* the insert resolves with an error or rejects: catch, alert, finally
FormInsertError(f) ==
    /\ f \in DOMAIN fm
    /\ fm[f].pc = "insert"
    /\ fm' = [fm EXCEPT ![f].alert = IF f = "AddService" THEN "Failed to add service"
                                     ELSE "Failed to create post. Please try again.",
                        ![f].isLoading = FALSE, ![f].uploadProgress = 0,
                        ![f].pc = "idle"]
    /\ UNCHANGED offFm

\* the ad is over, shown or not: Success alert (its OK button leaves the
\* screen), finally
FormAdDone(f) ==
    /\ f \in DOMAIN fm
    /\ fm[f].pc = "ad"
    /\ fm' = [fm EXCEPT ![f].alert = "Success",
                        ![f].isLoading = FALSE, ![f].uploadProgress = 0,
                        ![f].pc = "done"]
    /\ UNCHANGED offFm

NextForms ==
    \E f \in Forms :
        \/ FormSubmitInvalid(f)
        \/ FormSubmit(f)
        \/ \E uploaded \in SUBSET (1..MaxMedia) : FormUploaded(f, uploaded)
        \/ FormInsertOk(f)
        \/ FormInsertError(f)
        \/ FormAdDone(f)

(***************************************************************************)
(* The three handlers that create a row with media: either NewPostScreen    *)
(* (storage variant) or one of the two forms is open.                       *)
(***************************************************************************)
InitCreate ==
    \/ InitRetry
    \/ OffPdFmIdle /\ PdIdle /\ FmOpen

NextCreate == NextRetry \/ NextForms

SpecCreate == InitCreate /\ [][NextCreate]_vars

\* one of the three screens with a submit handler is open
InitSubmit ==
    /\ OffPdFmIdle
    /\ \/ PdOpen /\ FmIdle
       \/ PdIdle /\ FmOpen

NextSubmit ==
    \/ NextForms
    \/ \E c \in Commenters \cap DOMAIN pd : FetchPostDetails(c)
    \/ NextComment

SpecSubmit == InitSubmit /\ [][NextSubmit]_vars

(***************************************************************************)
(* fetchPosts of PostsScreen with its like info, one step per query.  The   *)
(* table of the likes is post_likes; liked_by_current_user is "undefined"   *)
(* on a post that was set without like info.                                *)
(***************************************************************************)
PsOpen ==
    \E s \in BOOLEAN, rows \in {<<>>, <<2, 1>>}, liked \in SUBSET {1, 2} :
        ps = [session |-> s, srvPosts |-> rows, srvLikes |-> liked, pc |-> "posts",
              data |-> <<>>, posts |-> <<>>, loading |-> TRUE, refreshing |-> FALSE]

\* [...data]: the rows without like info
NoLikeInfo(data) == [i \in 1..Len(data) |-> [id |-> data[i], liked_by_current_user |-> "undefined"]]

\* data.map(post => ({...post, liked_by_current_user: likedPostIds.includes(post.id)}))
WithLikeInfo(data, likedPostIds) ==
    [i \in 1..Len(data) |->
        [id |-> data[i],
         liked_by_current_user |-> IF data[i] \in likedPostIds THEN "true" ELSE "false"]]

\* the finally block
PsFinish(list) == [ps EXCEPT !.pc = "idle", !.data = <<>>, !.posts = list,
                             !.loading = FALSE, !.refreshing = FALSE]

\* handleRefresh: setRefreshing(true); fetchPosts() up to its first await
PsHandleRefresh ==
    /\ ps.pc = "idle"
    /\ ~ps.refreshing
    /\ ps' = [ps EXCEPT !.pc = "posts", !.loading = TRUE, !.refreshing = TRUE]
    /\ UNCHANGED offPs

\* the posts query resolves with rows: the profiles query is issued
PsPostsRows ==
    /\ ps.pc = "posts"
    /\ Len(ps.srvPosts) > 0
    /\ ps' = [ps EXCEPT !.pc = "profiles", !.data = ps.srvPosts]
    /\ UNCHANGED offPs

\* the posts query resolves with no rows: setPosts([]), finally
PsPostsEmpty ==
    /\ ps.pc = "posts"
    /\ Len(ps.srvPosts) = 0
    /\ ps' = PsFinish(<<>>)
    /\ UNCHANGED offPs

\* a query whose error is thrown resolves with one: catch, finally
PsQueryError ==
    /\ ps.pc \in {"posts", "profiles"}
    /\ ps' = PsFinish(ps.posts)
    /\ UNCHANGED offPs

\* the profiles query resolves: with a session the likes query is issued,
\* without one the posts are set without like info
PsProfilesRows ==
    /\ ps.pc = "profiles"
    /\ ps' = IF ps.session THEN [ps EXCEPT !.pc = "likes"] ELSE PsFinish(NoLikeInfo(ps.data))
    /\ UNCHANGED offPs

\* the likes query resolves with the user's rows, however many
PsLikesRows ==
    /\ ps.pc = "likes"
    /\ ps' = PsFinish(WithLikeInfo(ps.data, ps.srvLikes))
    /\ UNCHANGED offPs

\* the likes query resolves with an error: the posts are set without like info
PsLikesError ==
    /\ ps.pc = "likes"
    /\ ps' = PsFinish(NoLikeInfo(ps.data))
    /\ UNCHANGED offPs

NextPosts ==
    \/ PsHandleRefresh
    \/ PsPostsRows
    \/ PsPostsEmpty
    \/ PsQueryError
    \/ PsProfilesRows
    \/ PsLikesRows
    \/ PsLikesError

(***************************************************************************)
(* The two feeds fetching, nobody tapping a like button: either the         *)
(* Discussions screen or PostsScreen is open.                               *)
(***************************************************************************)
InitStatus ==
    \/ Init
    \/ DiscOff /\ OffDiscPsIdle /\ PsOpen

NextStatus ==
    \/ FetchNext
    \/ CheckUserLikesRows
    \/ CheckUserLikesEmpty
    \/ CheckUserLikesError
    \/ NextPosts

SpecStatus == InitStatus /\ [][NextStatus]_vars

(***************************************************************************)
(* adUtils: the interstitial pipeline.  ad.interstitialAd is the module's   *)
(* variable (0 for null, else the index of an instance), ad.instances the   *)
(* InterstitialAd objects created so far with their listeners, ad.calls the *)
(* promises of the showInterstitialAd calls with their load timeout, and    *)
(* ad.timers the number of pending setTimeout(preloadInterstitialAd).       *)
(* The native SDK emits LOADED or ERROR for an instance that is loading and *)
(* CLOSED or ERROR for one that is showing.  events is the history of a     *)
(* call: what happened to it.                                               *)
(***************************************************************************)
Listener(kind, k) == [kind |-> kind, call |-> k]
PreloadListeners == {Listener("preLoaded", 0), Listener("preError", 0)}
DemandListeners(k) == {Listener("dmLoaded", k), Listener("dmError", k)}
ShowListeners(k) == {Listener("shClosed", k), Listener("shOpened", k), Listener("shError", k)}

NewInstance(listeners) == [state |-> "loading", listeners |-> listeners]

\* resolve(value) of the promise of call k; a promise settles once
Resolve(S, k, value) ==
    IF S.calls[k].result = "pending" THEN [S EXCEPT !.calls[k].result = value] ELSE S

Note(S, k, event) == [S EXCEPT !.calls[k].events = @ \cup {event}]

Unsubscribe(S, a, listeners) == [S EXCEPT !.instances[a].listeners = @ \ listeners]

\* clearTimeout(loadTimeoutId)
ClearTimeout(S, k) ==
    IF S.calls[k].timer = "armed" THEN [S EXCEPT !.calls[k].timer = "cleared"] ELSE S

\* cleanup of the showAd call made for k on instance a
Cleanup(S, a, k) == [Unsubscribe(S, a, ShowListeners(k)) EXCEPT !.interstitialAd = 0]

\* preloadInterstitialAd: a new instance with its two listeners, load()
PreloadInterstitialAd(S) ==
    [S EXCEPT !.interstitialAd = Len(S.instances) + 1,
              !.instances = Append(@, NewInstance(PreloadListeners))]

\* showAd(resolve) for call k: on the instance interstitialAd points to, the
\* three listeners and show(); show() is rejected unless the instance has
\* loaded and is not on screen, and the catch runs cleanup and resolves false
ShowAd(S, k) ==
    IF S.interstitialAd = 0 THEN Resolve(S, k, "false")
    ELSE LET a == S.interstitialAd
             S1 == [S EXCEPT !.instances[a].listeners = @ \cup ShowListeners(k)]
         IN IF S.instances[a].state = "loaded"
            THEN Note([S1 EXCEPT !.instances[a].state = "showing"], k, "shown")
            ELSE Note(Resolve(Cleanup(S1, a, k), k, "false"), k, "rejected")

\* after initializeAds: the first instance is loading
InitAds ==
    /\ DiscOff
    /\ UpIdle /\ NpIdle /\ ValIdle /\ PkIdle /\ PdIdle /\ FmIdle /\ PsIdle
    /\ SvIdle /\ AppIdle
    /\ ad = PreloadInterstitialAd([interstitialAd |-> 0, instances |-> <<>>,
                                   calls |-> <<>>, timers |-> 0])

\* a pending setTimeout(() => preloadInterstitialAd()) fires
PreloadTimerFires ==
    /\ ad.timers > 0
    /\ Len(ad.instances) < MaxAds
    /\ ad' = PreloadInterstitialAd([ad EXCEPT !.timers = @ - 1])
    /\ UNCHANGED offAd

NewShowCall(timer) == [result |-> "pending", timer |-> timer, events |-> {}]

\* showInterstitialAd with no instance: one is created and loaded on demand
\* under a five-second timeout
ShowInterstitialAdOnDemand ==
    /\ Len(ad.calls) < MaxShows
    /\ Len(ad.instances) < MaxAds
    /\ ad.interstitialAd = 0
    /\ LET k == Len(ad.calls) + 1
       IN ad' = [ad EXCEPT !.calls = Append(@, NewShowCall("armed")),
                           !.interstitialAd = Len(ad.instances) + 1,
                           !.instances = Append(@, NewInstance(DemandListeners(k)))]
    /\ UNCHANGED offAd

\* showInterstitialAd with an instance: showAd(resolve)
ShowInterstitialAdPreloaded ==
    /\ Len(ad.calls) < MaxShows
    /\ ad.interstitialAd # 0
    /\ LET k == Len(ad.calls) + 1
       IN ad' = ShowAd([ad EXCEPT !.calls = Append(@, NewShowCall("none"))], k)
    /\ UNCHANGED offAd

\* the load timeout of call k fires and leaves the promise pending
LoadTimeoutIgnored(k) ==
    /\ ad.calls[k].timer = "armed"
    /\ ad' = Note([ad EXCEPT !.calls[k].timer = "fired"], k, "timeout")
    /\ UNCHANGED offAd

\* the load timeout of call k fires: resolve(false)
LoadTimeout(k) ==
    /\ ad.calls[k].timer = "armed"
    /\ ad' = Note(Resolve([ad EXCEPT !.calls[k].timer = "fired"], k, "false"), k, "timeout")
    /\ UNCHANGED offAd

\* the LOADED listener of the on-demand load of instance a, if subscribed:
\* clearTimeout, unsubscribeLoaded, showAd(resolve)
FireDemandLoaded(S, a) ==
    IF \E k \in 1..Len(S.calls) : Listener("dmLoaded", k) \in S.instances[a].listeners
    THEN LET k == CHOOSE k \in 1..Len(S.calls) :
                      Listener("dmLoaded", k) \in S.instances[a].listeners
         IN ShowAd(Unsubscribe(ClearTimeout(S, k), a, {Listener("dmLoaded", k)}), k)
    ELSE S

\* instance a emits LOADED
AdLoaded(a) ==
    /\ ad.instances[a].state = "loading"
    /\ ad' = FireDemandLoaded([ad EXCEPT !.instances[a].state = "loaded"], a)
    /\ UNCHANGED offAd

\* the ERROR listener of preloadInterstitialAd, if subscribed: interstitialAd
\* = null, both listeners unsubscribed, setTimeout(preloadInterstitialAd, 5000)
FirePreloadError(S, a) ==
    IF Listener("preError", 0) \in S.instances[a].listeners
    THEN [Unsubscribe(S, a, PreloadListeners) EXCEPT !.interstitialAd = 0, !.timers = @ + 1]
    ELSE S

\* the ERROR listener of the on-demand load, if subscribed: clearTimeout,
\* both listeners unsubscribed, interstitialAd = null, resolve(false)
FireDemandError(S, a) ==
    IF \E k \in 1..Len(S.calls) : Listener("dmError", k) \in S.instances[a].listeners
    THEN LET k == CHOOSE k \in 1..Len(S.calls) :
                      Listener("dmError", k) \in S.instances[a].listeners
         IN Resolve([Unsubscribe(ClearTimeout(S, k), a, DemandListeners(k))
                        EXCEPT !.interstitialAd = 0], k, "false")
    ELSE S

\* the listener kind of showAd for the calls k..Len(calls) that have one on
\* instance a: cleanup and resolvePromise(value); CLOSED also sets the timer
\* that pre-loads the next ad
RECURSIVE FireShow(_, _, _, _, _)
FireShow(S, a, k, kind, event) ==
    IF k > Len(S.calls) THEN S
    ELSE IF Listener(kind, k) \in S.instances[a].listeners
         THEN LET S1 == Cleanup(S, a, k)
                  S2 == IF kind = "shClosed" THEN [S1 EXCEPT !.timers = @ + 1] ELSE S1
                  S3 == Resolve(S2, k, IF kind = "shClosed" THEN "true" ELSE "false")
              IN FireShow(Note(S3, k, event), a, k + 1, kind, event)
         ELSE FireShow(S, a, k + 1, kind, event)

\* the call that loads instance a on demand gets event in its history
NoteDemand(S, a, event) ==
    IF \E k \in 1..Len(S.calls) : Listener("dmError", k) \in S.instances[a].listeners
    THEN Note(S, CHOOSE k \in 1..Len(S.calls) :
                     Listener("dmError", k) \in S.instances[a].listeners, event)
    ELSE S

\* instance a emits ERROR while loading
AdLoadError(a) ==
    /\ ad.instances[a].state = "loading"
    /\ LET S0 == NoteDemand([ad EXCEPT !.instances[a].state = "failed"], a, "loadError")
       IN ad' = FireShow(FireDemandError(FirePreloadError(S0, a), a), a, 1, "shError", "displayError")
    /\ UNCHANGED offAd

\* instance a emits ERROR while on screen
AdDisplayError(a) ==
    /\ ad.instances[a].state = "showing"
    /\ LET S0 == [ad EXCEPT !.instances[a].state = "failed"]
       IN ad' = FireShow(FireDemandError(FirePreloadError(S0, a), a), a, 1, "shError", "displayError")
    /\ UNCHANGED offAd

\* instance a emits CLOSED
AdClosed(a) ==
    /\ ad.instances[a].state = "showing"
    /\ ad' = FireShow([ad EXCEPT !.instances[a].state = "closed"], a, 1, "shClosed", "closed")
    /\ UNCHANGED offAd

NextAds ==
    \/ PreloadTimerFires
    \/ ShowInterstitialAdOnDemand
    \/ ShowInterstitialAdPreloaded
    \/ \E k \in 1..Len(ad.calls) : LoadTimeout(k)
    \/ \E a \in 1..Len(ad.instances) : AdLoaded(a)
    \/ \E a \in 1..Len(ad.instances) : AdLoadError(a)
    \/ \E a \in 1..Len(ad.instances) : AdDisplayError(a)
    \/ \E a \in 1..Len(ad.instances) : AdClosed(a)

SpecAds == InitAds /\ [][NextAds]_vars

(***************************************************************************)
(* ServicesScreen: fetchServices per selected category.  sv is the screen:  *)
(* its state, and the fetchServices calls in flight, each with the category *)
(* its closure captured.                                                    *)
(***************************************************************************)
categories == {"All", "Home", "Beauty", "Education", "Other"}

\* rows of the services table, newest first, and the profiles of their owners
ServicesTable == <<[id |-> 2, category |-> "Beauty", user_id |-> "U2"],
                   [id |-> 1, category |-> "Home", user_id |-> "U1"]>>

\* the services query: every row, or the rows of the category
ServicesQuery(category) ==
    SelectSeq(ServicesTable,
              LAMBDA service : category = "All" \/ service.category = category)

\* services joined with the profiles of their owners
ServicesWithProfiles(data) ==
    [i \in 1..Len(data) |->
        [id |-> data[i].id, category |-> data[i].category,
         profile |-> data[i].user_id]]

\* fetchServices up to its first await: setLoading(true), the query is sent
SvFetchServices(S) ==
    [S EXCEPT !.loading = TRUE,
              !.fetches = Append(@, [category |-> S.selectedCategory,
                                     pc |-> "services", data |-> <<>>]),
              !.nFetches = @ + 1]

\* finally: setLoading(false), setRefreshing(false); the call is over
SvFinally(S, i) ==
    [S EXCEPT !.loading = FALSE, !.refreshing = FALSE,
              !.fetches = RemoveAt(@, i)]

\* the screen is mounted: the effect has called fetchServices for 'All'
InitServices ==
    /\ DiscOff
    /\ UpIdle /\ NpIdle /\ ValIdle /\ PkIdle /\ PdIdle /\ FmIdle /\ PsIdle
    /\ AdIdle /\ AppIdle
    /\ sv = [selectedCategory |-> "All", services |-> <<>>, loading |-> TRUE,
             refreshing |-> FALSE, failed |-> FALSE, nFetches |-> 0,
             fetches |-> <<[category |-> "All", pc |-> "services",
                            data |-> <<>>]>>]

\* a category chip is pressed: setSelectedCategory, and the effect on
\* fetchServices (rebuilt for the new category) calls it
SelectCategory(category) ==
    /\ sv # <<>>
    /\ category # sv.selectedCategory
    /\ sv.nFetches < MaxFetches
    /\ sv' = SvFetchServices([sv EXCEPT !.selectedCategory = category])
    /\ UNCHANGED offSv

\* handleRefresh: setRefreshing(true); fetchServices()
SvHandleRefresh ==
    /\ sv # <<>>
    /\ sv.nFetches < MaxFetches
    /\ sv' = SvFetchServices([sv EXCEPT !.refreshing = TRUE])
    /\ UNCHANGED offSv

\* the services query resolves with rows: the profiles query is sent
SvServicesRows(i) ==
    /\ sv.fetches[i].pc = "services"
    /\ Len(ServicesQuery(sv.fetches[i].category)) > 0
    /\ sv' = [sv EXCEPT !.fetches[i].pc = "profiles",
                        !.fetches[i].data = ServicesQuery(sv.fetches[i].category)]
    /\ UNCHANGED offSv

\* the services query resolves with no rows: setServices([])
SvServicesEmpty(i) ==
    /\ sv.fetches[i].pc = "services"
    /\ Len(ServicesQuery(sv.fetches[i].category)) = 0
    /\ sv' = SvFinally([sv EXCEPT !.services = <<>>], i)
    /\ UNCHANGED offSv

\* the services query or the profiles query resolves with an error: logged
SvQueryError(i) ==
    /\ sv.fetches[i].pc \in {"services", "profiles"}
    /\ sv' = SvFinally([sv EXCEPT !.failed = TRUE], i)
    /\ UNCHANGED offSv

\* the profiles query resolves: setServices(servicesWithProfiles)
SvProfilesRows(i) ==
    /\ sv.fetches[i].pc = "profiles"
    /\ sv' = SvFinally([sv EXCEPT !.services =
                            ServicesWithProfiles(sv.fetches[i].data)], i)
    /\ UNCHANGED offSv

NextServices ==
    \/ \E category \in categories : SelectCategory(category)
    \/ SvHandleRefresh
    \/ \E i \in 1..Len(sv.fetches) : SvServicesRows(i)
    \/ \E i \in 1..Len(sv.fetches) : SvServicesEmpty(i)
    \/ \E i \in 1..Len(sv.fetches) : SvQueryError(i)
    \/ \E i \in 1..Len(sv.fetches) : SvProfilesRows(i)

SpecServices == InitServices /\ [][NextServices]_vars

(***************************************************************************)
(* App and AuthProvider: the process-wide session.  app holds the session   *)
(* of the auth subsystem (auth), the state of App (session, isLoading), the *)
(* getSession() call of the mount effect, and the state of AuthProvider.    *)
(***************************************************************************)
NoSession == "null"
Sessions == {NoSession, "S1", "S2"}

\* session?.user || null
UserOf(newSession) == CASE newSession = "S1" -> "U1"
                     [] newSession = "S2" -> "U2"
                     [] OTHER -> "null"

\* App is mounted: getSession() is called and the subscription is made
InitApp ==
    /\ DiscOff
    /\ UpIdle /\ NpIdle /\ ValIdle /\ PkIdle /\ PdIdle /\ FmIdle /\ PsIdle
    /\ AdIdle /\ SvIdle
    /\ \E stored \in Sessions :
          app = [auth |-> stored, session |-> NoSession, isLoading |-> TRUE,
                 getSession |-> [pc |-> "called", session |-> NoSession],
                 user |-> "null", userLoading |-> TRUE,
                 deps |-> <<>>, nEvents |-> 0]

\* getSession() reads the session the auth subsystem holds
GetSessionReads ==
    /\ app # <<>>
    /\ app.getSession.pc = "called"
    /\ app' = [app EXCEPT !.getSession = [pc |-> "read", session |-> app.auth]]
    /\ UNCHANGED offApp

\* the promise of getSession() resolves: setSession(session); setIsLoading(false)
GetSessionResolves ==
    /\ app # <<>>
    /\ app.getSession.pc = "read"
    /\ app' = [app EXCEPT !.session = app.getSession.session,
                          !.isLoading = FALSE,
                          !.getSession.pc = "done"]
    /\ UNCHANGED offApp

\* the auth subsystem signs in, signs out or refreshes, and the subscription
\* delivers it: setSession(session); setIsLoading(false)
AuthStateChange(newSession) ==
    /\ app # <<>>
    /\ app.nEvents < MaxAuthEvents
    /\ app' = [app EXCEPT !.auth = newSession,
                          !.session = newSession,
                          !.isLoading = FALSE,
                          !.nEvents = @ + 1]
    /\ UNCHANGED offApp

\* the effect of AuthProvider on [session, sessionLoading], once mounted
AuthProviderEffect ==
    /\ app # <<>>
    /\ ~app.isLoading
    /\ app.deps # <<app.session, app.isLoading>>
    /\ app' = [app EXCEPT !.user = UserOf(app.session),
                          !.userLoading = FALSE,
                          !.deps = <<app.session, app.isLoading>>]
    /\ UNCHANGED offApp

NextApp ==
    \/ GetSessionReads
    \/ GetSessionResolves
    \/ \E newSession \in Sessions : AuthStateChange(newSession)
    \/ AuthProviderEffect

SpecApp == InitApp /\ [][NextApp]_vars

(***************************************************************************)
(* Claims about the like button of the Discussions feed.                    *)
(***************************************************************************)
Displayed(list, postId) == [likes |-> PostById(list, postId).likes,
                            isLiked |-> PostById(list, postId).isLiked]
Tapped == nCalls' = nCalls + 1
NewCall == calls'[Len(calls')]
Finished(i) == i \in 1..Len(calls) /\ calls' = RemoveAt(calls, i)

\* C1: on every render of the feed of a signed-in user the displayed like
\* count of a post is the count it has without this user's like plus 1 if
\* it is displayed as liked.
C1_CountMatchesLiked ==
    (session /\ ListVisible) =>
    \A i \in 1..Len(posts) :
        posts[i].likes = OthersLikes(posts[i].id) + (IF posts[i].isLiked THEN 1 ELSE 0)

\* C2: when the insert or delete of a like fails, then at the return of the
\* handler the post is displayed, in posts and in filteredPosts, with the
\* count and the liked flag it had before the tap.
C2_FailureRestoresPreToggle ==
    [][\A i \in 1..Len(calls) :
          (/\ Finished(i)
           /\ \/ calls[i].pc = "likes"
              \/ calls[i].likesRes = "error")
          => /\ Displayed(posts', calls[i].post) =
                    [likes |-> calls[i].likes, isLiked |-> calls[i].isLiked]
             /\ variant = "search" =>
                  Displayed(filteredPosts', calls[i].post) =
                    [likes |-> calls[i].likes, isLiked |-> calls[i].isLiked]]_vars

\* C3: the tap of a toggle takes a post displayed as {liked=false, count=c}
\* to {liked=true, count=c+1} and a post displayed as {liked=true, count=c+1}
\* to {liked=false, count=c}, and the return of a handler whose remote calls
\* succeeded leaves the displayed lists as they are; so a second toggle after
\* a successful first one is back at {liked=false, count=c}.
C3_ToggleRoundTrip ==
    [][/\ Tapped =>
            LET old == Displayed(posts, NewCall.post)
                new == Displayed(posts', NewCall.post)
            IN /\ ~old.isLiked => new = [likes |-> old.likes + 1, isLiked |-> TRUE]
               /\ old.isLiked => new = [likes |-> old.likes - 1, isLiked |-> FALSE]
               /\ e2e'.phase = "untapped" => new = [likes |-> e2e.c, isLiked |-> FALSE]
       /\ \A i \in 1..Len(calls) :
            (Finished(i) /\ calls[i].pc = "update" /\ calls[i].likesRes = "ok"
                /\ lastDone'.updateRes = "ok")
            => posts' = posts /\ filteredPosts' = filteredPosts]_vars

\* C3 witness: a like and then an unlike of the same post, all remote calls
\* succeeding, have returned and the post is displayed as before the first.
C3_Witness ==
    /\ e2e.phase = "unliked"
    /\ calls = <<>>
    /\ Displayed(posts, e2e.post) = [likes |-> e2e.c, isLiked |-> FALSE]

\* C4: no insert into likes is issued for a (post, user) pair whose row
\* exists on the server.
C4_NoDuplicateInsert ==
    [][(Tapped /\ ~NewCall.isLiked) => NewCall.post \notin srvLikes]_vars

\* C5: after a like whose insert and counter update succeeded on a post
\* shown with the server's count c, then a refetch and a checkUserLikes, the
\* post is displayed with count c+1 and liked.
C5_LikeSurvivesRefetch ==
    e2e.phase = "checked" =>
        Displayed(posts, e2e.post) = [likes |-> e2e.c + 1, isLiked |-> TRUE]

\* C6: a handler whose insert or delete failed has shown an error alert.
C6_FailureAlerts ==
    lastDone.likesRes \in {"error", "threw"} => lastDone.alerted

\* C25: after any sequence of like taps of one user on one post, also taps
\* made while earlier round trips are in flight and with the remote calls
\* completing in any order, once every remote call has completed without
\* error the displayed isLiked is the existence of the user's likes row on
\* the server and the displayed count is the server's posts.likes.
C25_DoubleToggleConverges ==
    (/\ nCalls > 0
     /\ calls = <<>>
     /\ fetch = FetchIdle
     /\ ~chkPending) =>
        \A i \in 1..Len(posts) :
            posts[i].id \in TapPosts =>
                /\ posts[i].isLiked = (posts[i].id \in srvLikes)
                /\ posts[i].likes = srvPosts[SrvIdx(posts[i].id)].likes

\* C26: after fetchPosts has completed with a session present and no further
\* user input, only finitely many likes queries are issued: from some point
\* on the effect on [posts, session] has no checkUserLikes query in flight,
\* also when the user has at least one likes row.
C26_ChecksQuiesce == <>[](~chkPending)

\* C30: the like count is never negative: every post of the feed is
\* displayed with a count of at least 0, and the server's posts.likes is at
\* least 0 after every unlike, also after an unlike of a post fetched with
\* count 0 and marked as liked.
C30_CountNeverNegative ==
    /\ \A i \in 1..Len(posts) : posts[i].likes >= 0
    /\ \A i \in 1..Len(filteredPosts) : filteredPosts[i].likes >= 0
    /\ \A k \in 1..Len(srvPosts) : srvPosts[k].likes >= 0

(***************************************************************************)
(* Claims about the client-side join of fetchPosts.                         *)
(***************************************************************************)
Joined == fetch.pc = "profiles" /\ fetch'.pc = "idle" /\ fetchErr' = "none"
ProfilesFailed == fetch.pc = "profiles" /\ fetch'.pc = "idle" /\ fetchErr' = "profiles"

\* C7: the list set by the join has one row per fetched post, in the order
\* fetched, and the profile of each row is the profiles row whose id is the
\* row's user_id, or null when the profiles table has no such row.
C7_JoinMatchesUserId ==
    [][Joined =>
        /\ Len(posts') = Len(fetch.data)
        /\ \A i \in 1..Len(fetch.data) :
            /\ posts'[i].id = fetch.data[i].id
            /\ posts'[i].user_id = fetch.data[i].user_id
            /\ posts'[i].likes = fetch.data[i].likes
            /\ IF \E pr \in srvProfiles : pr.id = fetch.data[i].user_id
               THEN /\ posts'[i].profile \in srvProfiles
                    /\ posts'[i].profile.id = fetch.data[i].user_id
               ELSE posts'[i].profile = NullProfile]_vars

\* C7 witness: a joined list of at least two rows, the first with a null
\* profile and a later one with the profile of its author.
C7_Witness ==
    /\ fetch.pc = "idle"
    /\ fetchErr = "none"
    /\ Len(posts) >= 2
    /\ posts[1].profile = NullProfile
    /\ \E i \in 2..Len(posts) : posts[i].profile = ProfileOf(posts[i].user_id)

\* C8 as stated: after a fetch whose posts query returned rows and whose
\* profiles query failed, the list is the fetched rows with null profiles.
C8_NullProfilesOnFailure ==
    (fetch.pc = "idle" /\ fetchErr = "profiles") =>
        /\ Len(posts) = Len(srvPosts)
        /\ \A i \in 1..Len(posts) :
              posts[i].id = srvPosts[i].id /\ posts[i].profile = NullProfile

\* C8 amended: a fetch whose profiles query fails leaves posts and
\* filteredPosts as they were and clears loading and refreshing.
C8_FailureKeepsLists ==
    [][ProfilesFailed =>
        /\ posts' = posts
        /\ filteredPosts' = filteredPosts
        /\ ~loading'
        /\ ~refreshing']_vars

\* C8 witness: the first fetch got rows from posts, failed on profiles, and
\* the screen is left with an empty list.
C8_Witness ==
    /\ fetch.pc = "idle"
    /\ fetchErr = "profiles"
    /\ Len(srvPosts) > 0
    /\ posts = <<>>
    /\ ~loading

(***************************************************************************)
(* Claims about uploadMultipleFiles.                                        *)
(***************************************************************************)
RECURSIVE UrlsOf(_, _)
UrlsOf(fs, outcome) ==
    IF outcome = <<>> THEN <<>>
    ELSE LET n == Len(outcome)
         IN IF outcome[n]
            THEN Append(UrlsOf(fs, SubSeq(outcome, 1, n - 1)), SecureUrl(fs[n]))
            ELSE UrlsOf(fs, SubSeq(outcome, 1, n - 1))

\* C9: uploadMultipleFiles attempts every file and returns the urls of the
\* files whose upload succeeded, in input order; it ends only by returning.
C9_ReturnsSuccessesInOrder ==
    /\ upPc \in {"loop", "await", "returned"}
    /\ Len(upOutcome) <= Len(files)
    /\ urls = UrlsOf(files, upOutcome)
    /\ upPc = "returned" => Len(upOutcome) = Len(files)

\* C9 witness: three files, the second failed, two urls returned.
C9_Witness ==
    /\ upPc = "returned"
    /\ upOutcome = <<TRUE, FALSE, TRUE>>
    /\ urls = <<SecureUrl(files[1]), SecureUrl(files[3])>>

\* C10: the values passed to onProgress are within 0..100 and never decrease.
C10_ProgressMonotone ==
    /\ \A i \in 1..Len(progressLog) : progressLog[i] \in 0..100
    /\ \A i \in 1..(Len(progressLog) - 1) : progressLog[i] <= progressLog[i + 1]

\* C10 witness: a finished batch with a failed file and two reported values.
C10_Witness ==
    /\ upPc = "returned"
    /\ hasProgress
    /\ \E i \in 1..Len(upOutcome) : ~upOutcome[i]
    /\ Len(progressLog) >= 2

\* C11: when a non-empty batch with at least one failed file has finished,
\* the last value passed to onProgress is 100.
C11_ProgressEndsAt100 ==
    (/\ upPc = "returned"
     /\ hasProgress
     /\ Len(files) > 0
     /\ \E i \in 1..Len(upOutcome) : ~upOutcome[i])
    => /\ Len(progressLog) > 0
       /\ progressLog[Len(progressLog)] = 100

\* C12: uploads are started in input order, each only after the one before
\* it has completed, at most one is in flight, and the onProgress calls are
\* made in the order of the input files.
C12_SequentialInOrder ==
    /\ Cardinality(upInFlight) <= 1
    /\ upStarted = [i \in 1..Len(upStarted) |-> i]
    /\ Len(upOutcome) <= Len(upStarted)
    /\ Len(upStarted) <= Len(upOutcome) + 1
    /\ upInFlight = {i \in 1..Len(upStarted) : i > Len(upOutcome)}
    /\ \A i \in 1..(Len(progressFor) - 1) : progressFor[i] < progressFor[i + 1]
    /\ \A i \in 1..Len(progressFor) : progressFor[i] <= Len(upOutcome)

\* C12 witness: the third of three uploads is in flight after the first two
\* have completed and reported progress.
C12_Witness ==
    /\ upPc = "await"
    /\ upInFlight = {3}
    /\ upStarted = <<1, 2, 3>>
    /\ progressFor = <<1, 2>>

(***************************************************************************)
(* Claims about the retry loop of NewPostScreen.handleSubmit.               *)
(***************************************************************************)
RECURSIVE SumAttempts(_)
SumAttempts(fs) ==
    IF fs = <<>> THEN 0
    ELSE fs[Len(fs)].attempts + SumAttempts(SubSeq(fs, 1, Len(fs) - 1))

RECURSIVE UrlsOfOk(_, _)
UrlsOfOk(ms, fs) ==
    IF fs = <<>> THEN <<>>
    ELSE LET n == Len(fs)
         IN IF fs[n].ok
            THEN Append(UrlsOfOk(ms, SubSeq(fs, 1, n - 1)), PublicUrl(ms[n]))
            ELSE UrlsOfOk(ms, SubSeq(fs, 1, n - 1))

\* C13: every media is attempted at most three times, there is one pause
\* per failed attempt, a media is left without a url only after three failed
\* attempts, the urls are one per media that succeeded, and handleSubmit
\* returns for every pattern of failures.
C13_RetryLoopBounded ==
    /\ [](/\ \A i \in 1..Len(npFiles) : npFiles[i].attempts <= 3
          /\ npPauses + Len(mediaUrls) + (IF npPc = "pause" THEN 1 ELSE 0) = SumAttempts(npFiles)
          /\ mediaUrls = UrlsOfOk(selectedMedia, npFiles)
          /\ \A i \in 1..Len(npFiles) :
                (/\ npIdx > i \/ (npIdx = i /\ npPc \notin {"attempt", "pause"})
                 /\ ~npFiles[i].ok)
                    => npFiles[i].attempts = 3)
    /\ <>(npPc = "returned")

\* C13 witness: of two media the first was given up after three failed
\* attempts and the second succeeded on its third attempt.
C13_Witness ==
    /\ npPc = "insert"
    /\ Len(npFiles) = 2
    /\ npFiles[1] = [attempts |-> 3, ok |-> FALSE]
    /\ npFiles[2] = [attempts |-> 3, ok |-> TRUE]
    /\ mediaUrls = <<PublicUrl(selectedMedia[2])>>
    /\ npPauses = 5

(***************************************************************************)
(* Claims about validateMediaFile.                                          *)
(***************************************************************************)
\* the ceilings and allow-lists as the claim states them
ClaimedCeiling(type) == IF type = "image" THEN 1048576 ELSE 5242880
ClaimedTypes(type) ==
    IF type = "image" THEN {"image/jpeg", "image/png", "image/gif", "image/webp"}
    ELSE {"video/mp4", "video/quicktime", "video/x-msvideo"}

\* C14: validateMediaFile returns valid = true if and only if file.fileSize
\* is at most the ceiling of the kind (1MB images, 5MB videos, in every
\* context) and file.type is in the allow-list of the kind.
C14_ValidIffWithinLimits ==
    /\ vResult # NoResult =>
        (vResult.valid <=>
            /\ vFile.fileSize <= ClaimedCeiling(vType)
            /\ vFile.type \in ClaimedTypes(vType))
    /\ (vResult # NoResult /\ vFile.type = "image/bmp") => ~vResult.valid
    /\ (/\ vResult # NoResult
        /\ vFile = [fileSize |-> 2 * 1048576, type |-> "image/jpeg"]
        /\ vType = "image"
        /\ vMediaType = "POST") => ~vResult.valid

\* C14 witness: a JPEG of exactly 1MB was validated as a POST image and is valid.
C14_Witness ==
    /\ vFile = [fileSize |-> 1048576, type |-> "image/jpeg"]
    /\ vType = "image"
    /\ vMediaType = "POST"
    /\ vResult = [valid |-> TRUE, error |-> "null"]

(***************************************************************************)
(* Claims about MediaPicker.                                                *)
(***************************************************************************)
\* C15: no video longer than 15 seconds is in the list of files to upload.
C15_NoLongVideoSelected ==
    \A i \in 1..Len(mediaFiles) :
        mediaFiles[i].type \in {"video/mp4", "video/quicktime", "video/x-msvideo"}
            => mediaFiles[i].duration <= 15

\* C24: after any sequence of pickImage, pickVideo and removeMedia, also with
\* a second pick started before the first pick's result was applied, the list
\* holds at most MAX_IMAGES images and MAX_VIDEOS videos of its context
\* (POST 3/1, SERVICE 5/1, COMMENT 1/1), and every file in it passes
\* validateMediaFile as an image or as a video of that context.
C24_CountCeilings ==
    /\ currentImages <= (CASE pkMediaType = "POST" -> 3
                           [] pkMediaType = "SERVICE" -> 5
                           [] pkMediaType = "COMMENT" -> 1)
    /\ currentVideos <= 1
    /\ \A i \in 1..Len(mediaFiles) :
          \/ validateMediaFile(mediaFiles[i], "image", pkMediaType).valid
          \/ validateMediaFile(mediaFiles[i], "video", pkMediaType).valid

\* C24 witness: a POST list holds its one video while a second video pick,
\* started when the list held no video, is still open.
C24_Witness ==
    /\ pkMediaType = "POST"
    /\ currentVideos = 1
    /\ \E i \in 1..Len(picks) :
          /\ picks[i].kind = "video"
          /\ CountOf(picks[i].mediaFiles, ALLOWED_VIDEO_TYPES) = 0

(***************************************************************************)
(* Claims about ServicesScreen.                                             *)
(***************************************************************************)
\* C27: when the category changed or a refresh started while an earlier
\* fetchServices was in flight, then once every fetch has completed (none
\* with an error) the displayed services are the result of the fetch for the
\* selected category, whatever the order of the responses.
C27_DisplayedIsSelected ==
    (sv # <<>> /\ sv.fetches = <<>> /\ ~sv.failed) =>
        sv.services = ServicesWithProfiles(ServicesQuery(sv.selectedCategory))

(***************************************************************************)
(* Claims about App and AuthProvider.                                       *)
(***************************************************************************)
\* C28: once getSession() has resolved and the effect of AuthProvider has
\* run, the session held by App is the most recent session of the auth
\* subsystem (a late getSession() result does not overwrite a newer session
\* or a sign-out delivered by the subscription), and the user of
\* AuthProvider is that session's user.
C28_SessionIsLatest ==
    (/\ app # <<>>
     /\ app.getSession.pc = "done"
     /\ app.deps = <<app.session, app.isLoading>>) =>
        /\ app.session = app.auth
        /\ app.user = UserOf(app.auth)

(***************************************************************************)
(* Claims about handleLike and submitComment of PostDetailsScreen.          *)
(***************************************************************************)
\* C16: every like handler flips the local liked flag and count before its
\* first remote call is issued: while a remote call of handleLike is in
\* flight, the screen already shows the flipped flag and the moved count.
C16_FlipBeforeRemote ==
    \A c \in Clients :
        pd[c].like.pc \in {"likes", "update"} =>
            /\ pd[c].liked = ~pd[c].like.liked
            /\ pd[c].post.likes = PdNewLikes(c)

\* C17: no lost update: after any interleaving of toggles by the two clients
\* in which no remote call failed, once no call is in flight, the server's
\* likes counter is its initial value plus the like rows added minus the
\* like rows removed (there was no like row at the start).
C17_NoLostUpdate ==
    (pdHist.failures = 0 /\ \A c \in Clients : pd[c].like.pc = "idle") =>
        pdSrv.likes = InitialLikes + Cardinality(pdSrv.likeRows)

\* the step in which submitComment of client c ends after a successful insert
\* and sets its state, and the step in which its insert fails
CommentApplied(c) ==
    /\ pd[c].submit.pc = "profile"
    /\ pd'[c].submit.pc = "idle"
    /\ pd'[c].newComment = ""
InsertFailed(c) ==
    /\ pd[c].submit.pc = "insert"
    /\ pd'[c].submit.pc = "idle"

\* C18: when the comment insert succeeds, submitComment appends the row the
\* insert returned at the end of the local list and adds exactly 1 to the
\* comment counter locally and on the server, so that the two are equal
\* afterwards; when the insert fails, the local list and counter are unchanged.
C18_CommentCounted ==
    [][\A c \in Commenters :
          /\ CommentApplied(c) =>
                /\ pd'[c].comments = Append(pd[c].comments, pd[c].submit.data)
                /\ pd'[c].post.comments = pd[c].post.comments + 1
                /\ pd'[c].post.comments = pdSrv'.comments
          /\ InsertFailed(c) =>
                /\ pd'[c].comments = pd[c].comments
                /\ pd'[c].post.comments = pd[c].post.comments]_vars

(***************************************************************************)
(* Claims about the checks at the head of the submit handlers.              *)
(***************************************************************************)
\* a form, or the comment box of client c, that does not pass the checks
FormInvalid(f) == fm[f].pc = "idle" /\ ~(fm[f].session /\ Filled(f))
CommentInvalid(c) ==
    /\ pd[c].submit.pc = "idle"
    /\ ~(pd[c].session /\ Trim(pd[c].newComment) # "")

\* C19: validation comes before any network call: with no session, or with
\* a required text field empty after trimming, no step of handleSubmit of
\* AddServiceScreen, of handleSubmit of NewPostScreen or of submitComment
\* issues a remote call, and isLoading / submitting stay false.
C19_ValidationBeforeNetwork ==
    [][/\ \A f \in DOMAIN fm :
             FormInvalid(f) =>
                 /\ fm'[f].remote = {}
                 /\ fm'[f].pc = "idle"
                 /\ ~fm'[f].isLoading
       /\ \A c \in Commenters \cap DOMAIN pd :
             CommentInvalid(c) =>
                 /\ pd'[c].submit.pc = "idle"
                 /\ ~pd'[c].submitting
                 /\ pdSrv' = pdSrv]_vars

\* a form whose blank field handleSubmit has just refused
C19_Witness ==
    \E f \in DOMAIN fm :
        /\ FormInvalid(f)
        /\ fm[f].alert = InvalidAlert(f)
        /\ fm[f].remote = {}

(***************************************************************************)
(* Claims about the like status shown after a fetch.                        *)
(***************************************************************************)
\* PostsScreen shows a post as liked: !!item.liked_by_current_user
PsLiked(item) == item.liked_by_current_user = "true"

\* every post of the list has its flag set exactly when its id is in liked
FlagsAre(list, liked) == \A i \in 1..Len(list) : list[i].isLiked <=> (list[i].id \in liked)

Ended(S, a) == S.instances[a].state \in {"closed", "failed"}
Rejected(S) == {k \in 1..Len(S.calls) : "rejected" \in S.calls[k].events}

\* C21: after every display that ends with CLOSED and after every failure
\* (load error of a pre-loaded or on-demand ad, display ERROR, rejected
\* show()) the pipeline starts loading one new ad: the step in which an
\* instance ends or a show() is rejected sets a timer that pre-loads the next.
C21_ReloadAfterEnd ==
    [][(\/ \E a \in 1..Len(ad.instances) : ~Ended(ad, a) /\ Ended(ad', a)
        \/ Rejected(ad') # Rejected(ad))
          => ad'.timers > ad.timers]_vars

\* C22: an on-demand load on which the five-second timeout fired resolves
\* false; a call resolves true only after the ad shown for it emitted
\* CLOSED; a call that met a load error, a display error or a rejected
\* show() resolves false.
C22_ResolvedByOutcome ==
    \A k \in 1..Len(ad.calls) :
        LET call == ad.calls[k]
        IN /\ call.timer = "fired" => call.result = "false"
           /\ call.result = "true" => {"shown", "closed"} \subseteq call.events
           /\ call.events \cap {"loadError", "displayError", "rejected"} # {}
                 => call.result = "false"

\* an on-demand load has timed out, and another call's ad was shown and closed
C22_Witness ==
    /\ \E k \in 1..Len(ad.calls) : ad.calls[k].timer = "fired" /\ ad.calls[k].result = "false"
    /\ \E k \in 1..Len(ad.calls) : ad.calls[k].result = "true"

\* C29: once the load timeout of a call has fired, the ad loaded for it is
\* never shown.
C29_NoShowAfterTimeout ==
    \A k \in 1..Len(ad.calls) :
        "timeout" \in ad.calls[k].events => "shown" \notin ad.calls[k].events

(***************************************************************************)
(* Claims about the rows the submit handlers create.                        *)
(***************************************************************************)
\* the media column for the urls u: null for a post without any
ExpectedMedia(u, isPost) == [null |-> (isPost /\ Len(u) = 0), urls |-> u]

====
